---- MODULE Spec2Model ----
\* FatPigeorzFS: the write-ahead log (src/src/fs/log.rs) over the sharded
\* buffer cache (src/src/fs/buffer.rs) and the block device
\* (src/src/fs/filedisk.rs), with crash and mount-time recovery.
EXTENDS Integers, Sequences, FiniteSets, TLC

\* ---------------------------------------------------------------- sizes
\* fs.rs:20 sets MAXOPBLOCKS = 16; the model scales it down. Every size the
\* source derives from it (LOGSIZE, BLOCK_NUM) keeps the source's formula.
MAXOPBLOCKS == 2
LOGSIZE == MAXOPBLOCKS * 3 + 1
SHARD_NUM == 4
BLOCK_NUM == MAXOPBLOCKS * 4
LOGSTART == 2
LOG_BODY_LEN == LOGSIZE - 1
ShardCap == BLOCK_NUM \div SHARD_NUM

\* the workload: threads, operations per thread, crashes and remounts
NThreads == 3
MaxOps == 2
MaxTotalOps == 4
MaxCrashes == 2
MaxRemounts == 1
MaxImageN == 3

Threads == 1 .. NThreads
Shards == 0 .. (SHARD_NUM - 1)
HomeBase == LOGSTART + LOGSIZE
OwnLen == MAXOPBLOCKS + 1
Own(t) == (HomeBase + (t - 1) * OwnLen) .. (HomeBase + t * OwnLen - 1)
OwnBlock(t, k) == HomeBase + (t - 1) * OwnLen + k
HomeBlocks == UNION {Own(t) : t \in Threads}
LogBlocks == (LOGSTART + 1) .. (LOGSTART + LOGSIZE - 1)
WriteVal(t, k) == (t - 1) * MaxOps + k

VARIABLES
    disk,         \* the device: block id -> block image
    cache,        \* per shard, the LRU list (head first) of buffers
    cmap,         \* per shard, the keys of LruHandle.map
    lh,           \* Log.lh: the in-memory header [n, block]
    outstanding,  \* Log.outstanding
    pins,         \* Log.buffer_outstanding, as the block ids of the handles
    lock,         \* holder of the LogManager mutex across a commit, 0 if free
    poisoned,     \* the mutex was held by a thread that panicked
    pc,           \* position of each thread
    ci,           \* loop index of write_log / install_commit
    ops,          \* begin_op calls made by each thread
    wrote,        \* per thread, the blocks logged in its latest operation
    cur,          \* per thread, index in Own of the block it writes next
    want,         \* per home block, the last byte written through the cache
    committed,    \* home block images on the device at the last commit
    mode,         \* "run", "recover" or "mounted"
    stage,        \* position in Log::commit or Log::recover (0 outside both)
    crashes,      \* crashes so far
    remounts,     \* Log::init calls without a crash in between
    crashed,      \* what was in flight at the first crash
    cut,          \* home blocks an interrupted Log::recover had installed
    hnd,          \* per thread, the cache handle it got from get_buffer_block
    ev,           \* the last call made on the cache through such a handle
    fsys          \* the inode layer: bitmap, inodes, directories, open files

vars == <<disk, cache, cmap, lh, outstanding, pins, lock, poisoned, pc, ci,
          ops, wrote, cur, want, committed, mode, stage, crashes, remounts,
          crashed, cut, hnd, ev, fsys>>

\* ---------------------------------------------------------------- inode sizes
NDIRECT == 1
NINDIRECT == 2
NINODES == 4
NDATA == 5
BPB == 4
BSIZE == 2
MAXFILE == NDIRECT + NINDIRECT + NINDIRECT * NINDIRECT
ROOTINO == 1
Inums == ROOTINO .. NINODES
DataBlocks == 1 .. NDATA
\* the blocks of the image, and the bits block_alloc looks at: whole bitmap
\* blocks of BPB bits each
SBSize == NDATA + 1
BitmapBits == ((SBSize + BPB - 1) \div BPB) * BPB

\* the file layer is not in use
NoFs == [alive |-> FALSE]

\* the value v of one statement handed to the statements K after it
Bind(v, K(_)) == K(v)

\* ---------------------------------------------------------------- device
Range(s) == {s[i] : i \in DOMAIN s}

ZeroBlocks == [i \in 1 .. LOG_BODY_LEN |-> 0]
NewHeader == [n |-> 0, block |-> ZeroBlocks]

\* mkfs: superblock written, log zeroed, data blocks zeroed
MkfsDisk ==
    [b \in ({LOGSTART} \cup LogBlocks \cup HomeBlocks) |->
        IF b = LOGSTART THEN NewHeader ELSE 0]

\* ---------------------------------------------------------------- buffer cache
\* BufferBlock::new in a new Arc: block_id 0, no device, zeroed data; rc counts
\* the clones of the Arc that callers of get_buffer_block hold
NewBuffer == [id |-> 0, data |-> 0, dirty |-> FALSE, dev |-> FALSE, rc |-> 0]
NewShard == [i \in 1 .. ShardCap |-> NewBuffer]
NewCache == [s \in Shards |-> NewShard]
NewMap == [s \in Shards |-> {}]

ShardOf(b) == b % SHARD_NUM

RECURSIVE Sum(_, _)
Sum(f, S) == IF S = {} THEN 0 ELSE LET x == CHOOSE y \in S : TRUE
                                   IN  f[x] + Sum(f, S \ {x})

\* a faulty variant: the node taken out stays linked
RemoveAtM(s, i) == s

RemoveAt(s, i) == [j \in 1 .. (Len(s) - 1) |-> IF j < i THEN s[j] ELSE s[j + 1]]

\* position of the buffer of block b that the map of the shard leads to, in
\* list l (0 if none). A buffer enters the map when it is loaded and goes to
\* the tail then and on every hit, so of several loaded buffers with id b the
\* one in the map is the last.
PosOf(l, b) ==
    IF \E i \in DOMAIN l : l[i].dev /\ l[i].id = b
    THEN CHOOSE i \in DOMAIN l :
            /\ l[i].dev /\ l[i].id = b
            /\ \A j \in DOMAIN l : (l[j].dev /\ l[j].id = b) => j <= i
    ELSE 0

\* a faulty variant: the reference count is not looked at
UnpinnedM(buf, held) == TRUE

\* Arc::strong_count(&node.data) == 1: no handle outside the cache, neither
\* a caller's (rc) nor one of the log's (held)
Unpinned(buf, held) == buf.rc = 0 /\ ~(buf.dev /\ buf.id \in held)

\* a faulty variant: the buffer at the LRU end, whoever holds it
VictimM(l, held) == 1

\* first buffer from the LRU end with no outside handle (0 if none)
Victim(l, held) ==
    IF \E i \in DOMAIN l : Unpinned(l[i], held)
    THEN CHOOSE i \in DOMAIN l :
            /\ Unpinned(l[i], held)
            /\ \A j \in 1 .. (i - 1) : ~Unpinned(l[j], held)
    ELSE 0

\* a faulty variant: nothing is written back
SyncDiskM(d, buf) == d

\* BufferBlock::sync / Drop: a dirty buffer is written to its block
SyncDisk(d, buf) ==
    IF buf.dirty /\ buf.dev THEN [d EXCEPT ![buf.id] = buf.data] ELSE d

\* LruHandle::get under HandleTable::get. st = [cache, cmap, disk]; held = the
\* block ids with a handle outside the cache. ok = FALSE is the None result,
\* on which HandleTable::get retries.
GetBuffer(st, b, held) ==
    LET s == ShardOf(b)
        l == st.cache[s]
    IN  IF b \in st.cmap[s] /\ PosOf(l, b) # 0
        THEN LET i == PosOf(l, b)
             IN  [ok |-> TRUE,
                  cache |-> [st.cache EXCEPT ![s] = Append(RemoveAt(l, i), l[i])],
                  cmap |-> st.cmap,
                  disk |-> st.disk]
        ELSE LET v == Victim(l, held)
             IN  IF v = 0
                 THEN [ok |-> FALSE, cache |-> st.cache, cmap |-> st.cmap,
                       disk |-> st.disk]
                 ELSE LET d == SyncDisk(st.disk, l[v])
                          nb == [id |-> b, data |-> d[b], dirty |-> FALSE,
                                 dev |-> TRUE, rc |-> 0]
                      IN  [ok |-> TRUE,
                           cache |-> [st.cache EXCEPT
                                        ![s] = Append(RemoveAt(l, v), nb)],
                           cmap |-> [st.cmap EXCEPT
                                        ![s] = (@ \ {l[v].id}) \cup {b}],
                           disk |-> d]

\* the resident buffer of block b (the caller holds a handle to it)
BufOf(st, b) == st.cache[ShardOf(b)][PosOf(st.cache[ShardOf(b)], b)]

\* BufferBlock::as_mut followed by a store of the whole block, on the buffer
\* at position i of shard s
PutAt(st, s, i, data) ==
    [st EXCEPT !.cache[s][i].data = data, !.cache[s][i].dirty = TRUE]

\* the same through a handle just got for block b
PutData(st, b, data) == PutAt(st, ShardOf(b), PosOf(st.cache[ShardOf(b)], b), data)

\* BufferBlock::sync on the buffer at position i of shard s
SyncAt(st, s, i) ==
    [st EXCEPT !.disk = SyncDisk(st.disk, st.cache[s][i]),
               !.cache[s][i].dirty = FALSE]

\* the same through a handle just got for block b
SyncBuffer(st, b) == SyncAt(st, ShardOf(b), PosOf(st.cache[ShardOf(b)], b))

\* what a reader gets for block b through the cache
CacheRead(b) ==
    LET l == cache[ShardOf(b)]
    IN  IF b \in cmap[ShardOf(b)] /\ PosOf(l, b) # 0
        THEN l[PosOf(l, b)].data
        ELSE disk[b]

\* ---------------------------------------------------------------- log
St == [cache |-> cache, cmap |-> cmap, disk |-> disk]
SetSt(r) == cache' = r.cache /\ cmap' = r.cmap /\ disk' = r.disk
Held == Range(pins)
Failed(st) == [ok |-> FALSE, cache |-> st.cache, cmap |-> st.cmap, disk |-> st.disk]

\* Log::read_head: the header as the cache returns it
ReadHead(st, held) == GetBuffer(st, LOGSTART, held)

\* Log::write_head
WriteHead(st, h, held) ==
    LET g == GetBuffer(st, LOGSTART, held)
    IN  IF ~g.ok THEN Failed(st)
        ELSE [SyncBuffer(PutData(g, LOGSTART, h), LOGSTART) EXCEPT !.ok = TRUE]

\* one block copied through the cache and forced to the device: the body of
\* the loops of write_log and install_commit
CopyBlock(st, to, from, held) ==
    LET g1 == GetBuffer(st, to, held)
        g2 == GetBuffer(g1, from, held \cup {to})
    IN  IF ~g1.ok \/ ~g2.ok THEN Failed(st)
        ELSE [SyncBuffer(PutData(g2, to, BufOf(g2, from).data), to)
                EXCEPT !.ok = TRUE]

\* a faulty variant: the log body filled from its far end
WriteLogDstM(i) == LOGSTART + LOG_BODY_LEN - i

\* write_log: the log body block of slot i (0-based, as in the source)
WriteLogDst(i) == LOGSTART + i + 1

\* a faulty variant: the log body read from its far end
InstallSrcM(i) == LOGSTART + LOG_BODY_LEN - i

\* install_commit: the log body block of slot i
InstallSrc(i) == LOGSTART + i + 1

\* iteration i of Log::write_log
WriteLogStep(st, h, i, held) == CopyBlock(st, WriteLogDst(i), h.block[i + 1], held)

\* a faulty variant: the home block is written in the cache and not synced
InstallStepM(st, h, i, held) ==
    LET g1 == GetBuffer(st, h.block[i + 1], held)
        g2 == GetBuffer(g1, InstallSrc(i), held \cup {h.block[i + 1]})
    IN  IF ~g1.ok \/ ~g2.ok THEN Failed(st)
        ELSE [PutData(g2, h.block[i + 1], BufOf(g2, InstallSrc(i)).data)
                EXCEPT !.ok = TRUE]

\* iteration i of Log::install_commit
InstallStep(st, h, i, held) == CopyBlock(st, h.block[i + 1], InstallSrc(i), held)

\* the panic of both loops: slot i names its own log block
Overlap(h, i) == h.block[i + 1] = LOGSTART + i + 1

\* a faulty variant: install before the header is on the device
CommitOrderM == <<"wlog", "inst", "head", "clear">>

\* the order of the calls in Log::commit
CommitOrder == <<"wlog", "head", "inst", "clear">>

\* a faulty variant: the header cleared before the install
RecoverOrderM == <<"read", "clear", "inst">>

\* the order of the calls in Log::recover
RecoverOrder == <<"read", "inst", "clear">>

\* a faulty variant: lh.n = 0 forgotten
ClearedHeaderM(h) == h

\* the header Log::recover and Log::commit write last
ClearedHeader(h) == [h EXCEPT !.n = 0]

\* LogManager::begin_op: the test that makes the caller wait
MustWait(h, out) == h.n + (out + 1) * MAXOPBLOCKS > LOGSIZE

\* a faulty variant: no absorption scan, every log_write takes a new slot
SlotOfM(h, b) == h.n

\* LogManager::write: the slot (0-based) the block id goes to
SlotOf(h, b) ==
    IF \E i \in 1 .. h.n : h.block[i] = b
    THEN (CHOOSE i \in 1 .. h.n :
            h.block[i] = b /\ \A j \in 1 .. (i - 1) : h.block[j] # b) - 1
    ELSE h.n

\* a faulty variant: the guard dropped before Log::commit
CommitLockM(t) == 0

\* the value of the guard of the log mutex while its holder commits
CommitLock(t) == t

\* Condvar::notify_all
NotifyAll(p) == [u \in Threads |-> IF p[u] = "wait" THEN "woken" ELSE p[u]]

\* a whole Log::recover on image d with no crash, from a cold cache
RECURSIVE InstallAll(_, _, _)
InstallAll(st, h, i) ==
    IF i >= h.n THEN st ELSE InstallAll(InstallStep(st, h, i, {}), h, i + 1)

RecoverDisk(d) ==
    LET r == ReadHead([cache |-> NewCache, cmap |-> NewMap, disk |-> d], {})
        h == BufOf(r, LOGSTART).data
    IN  WriteHead(InstallAll(r, h, 0), ClearedHeader(h), {}).disk

HomeOf(d) == [b \in HomeBlocks |-> d[b]]

\* ---------------------------------------------------------------- initial state
\* mount of a fresh image: LogManager::init has run Log::recover on it
MountedSt == WriteHead(ReadHead([cache |-> NewCache, cmap |-> NewMap,
                                 disk |-> MkfsDisk], {}), NewHeader, {})
NoHandle == [s |-> 0, i |-> 0, id |-> 0]
NoEvent == [op |-> "none", t |-> 0, id |-> 0, flushed |-> FALSE,
            evicted |-> FALSE]
NoCrash == [blocks |-> {}, pre |-> <<>>, post |-> <<>>, hn |-> 0, image |-> <<>>]

Init ==
    /\ disk = MountedSt.disk
    /\ cache = MountedSt.cache
    /\ cmap = MountedSt.cmap
    /\ lh = NewHeader
    /\ outstanding = 0
    /\ pins = <<>>
    /\ lock = 0
    /\ poisoned = FALSE
    /\ pc = [t \in Threads |-> "idle"]
    /\ ci = 0
    /\ ops = [t \in Threads |-> 0]
    /\ wrote = [t \in Threads |-> {}]
    /\ cur = [t \in Threads |-> 0]
    /\ want = [b \in HomeBlocks |-> 0]
    /\ committed = [b \in HomeBlocks |-> 0]
    /\ mode = "run"
    /\ stage = 0
    /\ crashes = 0
    /\ remounts = 0
    /\ crashed = NoCrash
    /\ cut = 0
    /\ hnd = [t \in Threads |-> NoHandle]
    /\ ev = NoEvent
    /\ fsys = NoFs

\* ---------------------------------------------------------------- operations
\* LogManager::begin_op, from the call or from a wakeup to the wait or the return
BeginOp(t) ==
    /\ mode = "run"
    /\ lock = 0
    /\ \/ pc[t] = "idle" /\ ops[t] < MaxOps /\ Sum(ops, Threads) < MaxTotalOps
       \/ pc[t] = "woken"
    /\ ops' = [ops EXCEPT ![t] = IF pc[t] = "idle" THEN @ + 1 ELSE @]
    /\ IF poisoned
       THEN /\ pc' = [pc EXCEPT ![t] = "panic"]
            /\ UNCHANGED <<outstanding, wrote>>
       ELSE IF MustWait(lh, outstanding)
       THEN /\ pc' = [pc EXCEPT ![t] = "wait"]
            /\ UNCHANGED <<outstanding, wrote>>
       ELSE /\ pc' = [pc EXCEPT ![t] = "inop"]
            /\ outstanding' = outstanding + 1
            /\ wrote' = [wrote EXCEPT ![t] = {}]
    /\ UNCHANGED <<disk, cache, cmap, lh, pins, lock, poisoned, ci, cur, want,
                   committed, mode, stage, crashes, remounts, crashed, cut>>
    /\ UNCHANGED <<hnd, ev, fsys>>

\* the body of an operation (as in test_mp): get the block, take its write
\* guard, store the thread's byte, LogManager::write, drop guard and handle
OpWrite(t) ==
    /\ mode = "run"
    /\ lock = 0
    /\ pc[t] = "inop"
    /\ Cardinality(wrote[t]) < MAXOPBLOCKS
    /\ LET b == OwnBlock(t, cur[t])
           g == GetBuffer(St, b, Held)
           v == WriteVal(t, ops[t])
           w == PutData(g, b, v)
           slot == SlotOf(lh, b)
       IN  /\ g.ok
           /\ want' = [want EXCEPT ![b] = v]
           /\ cur' = [cur EXCEPT ![t] = (@ + 1) % OwnLen]
           /\ IF poisoned
              THEN /\ pc' = [pc EXCEPT ![t] = "panic"]
                   /\ SetSt(w)
                   /\ UNCHANGED <<lh, pins, poisoned, wrote>>
              ELSE IF lh.n >= LOGSIZE \/ slot >= LOG_BODY_LEN
              THEN \* assert!(lh.n < LOGSIZE) fails, or lh.block[slot] is out
                   \* of bounds: the thread panics holding the mutex
                   /\ pc' = [pc EXCEPT ![t] = "oob"]
                   /\ poisoned' = TRUE
                   /\ SetSt(w)
                   /\ UNCHANGED <<lh, pins, wrote>>
              ELSE /\ lh' = [n |-> IF slot = lh.n THEN lh.n + 1 ELSE lh.n,
                             block |-> [lh.block EXCEPT ![slot + 1] = b]]
                   /\ pins' = IF slot = lh.n THEN Append(pins, b) ELSE pins
                   /\ SetSt(IF slot = lh.n THEN GetBuffer(w, b, Held \cup {b}) ELSE w)
                   /\ wrote' = [wrote EXCEPT ![t] = @ \cup {b}]
                   /\ UNCHANGED <<pc, poisoned>>
    /\ UNCHANGED <<outstanding, lock, ci, ops, committed, mode, stage,
                   crashes, remounts, crashed, cut>>
    /\ UNCHANGED <<hnd, ev, fsys>>

\* LogManager::end_op up to the return, or up to the call of Log::commit
EndOp(t) ==
    /\ mode = "run"
    /\ lock = 0
    /\ pc[t] = "inop"
    /\ IF poisoned
       THEN /\ pc' = [pc EXCEPT ![t] = "panic"]
            /\ UNCHANGED <<outstanding, lock, stage, ci>>
       ELSE /\ outstanding' = outstanding - 1
            /\ IF outstanding - 1 = 0 /\ lh.n > 0
               THEN /\ pc' = [pc EXCEPT ![t] = "commit"]
                    /\ lock' = CommitLock(t)
                    /\ stage' = 1
                    /\ ci' = 0
               ELSE /\ pc' = [NotifyAll(pc) EXCEPT ![t] = "idle"]
                    /\ UNCHANGED <<lock, stage, ci>>
    /\ UNCHANGED <<disk, cache, cmap, lh, pins, poisoned, ops, wrote, cur, want,
                   committed, mode, crashes, remounts, crashed, cut>>
    /\ UNCHANGED <<hnd, ev, fsys>>

\* the cache and device effect of the call Log::commit is at: one iteration
\* of write_log or install_commit, or one write_head; ok is FALSE while
\* HandleTable::get finds no buffer to hand out and tries again
CommitIo ==
    LET s == CommitOrder[stage]
    IN  IF s = "wlog" THEN WriteLogStep(St, lh, ci, Held)
        ELSE IF s = "head" THEN WriteHead(St, lh, Held)
        ELSE IF s = "inst" THEN InstallStep(St, lh, ci, Held)
        ELSE WriteHead(St, ClearedHeader(lh), Held)

\* the loop index and stage after iteration ci of a loop over 0 .. n-1
LoopNext(n) ==
    IF ci + 1 >= n THEN stage' = stage + 1 /\ ci' = 0
    ELSE stage' = stage /\ ci' = ci + 1

\* Log::commit, one iteration of write_log (one device write)
CommitWriteLog(t) ==
    /\ mode = "run"
    /\ pc[t] = "commit"
    /\ CommitOrder[stage] = "wlog"
    /\ IF Overlap(lh, ci)
       THEN /\ pc' = [pc EXCEPT ![t] = "panic"]
            /\ poisoned' = TRUE
            /\ UNCHANGED <<disk, cache, cmap, stage, ci>>
       ELSE LET r == CommitIo
            IN  /\ r.ok
                /\ SetSt(r)
                /\ LoopNext(lh.n)
                /\ UNCHANGED <<pc, poisoned>>
    /\ UNCHANGED <<lh, outstanding, pins, lock, ops, wrote, cur, want, committed,
                   mode, crashes, remounts, crashed, cut>>
    /\ UNCHANGED <<hnd, ev, fsys>>

\* Log::commit, write_head with n > 0: the commit point
CommitWriteHead(t) ==
    /\ mode = "run"
    /\ pc[t] = "commit"
    /\ CommitOrder[stage] = "head"
    /\ LET r == CommitIo
       IN  /\ r.ok
           /\ SetSt(r)
    /\ stage' = stage + 1
    /\ ci' = 0
    /\ UNCHANGED <<lh, outstanding, pins, lock, poisoned, pc, ops, wrote, cur,
                   want, committed, mode, crashes, remounts, crashed, cut>>
    /\ UNCHANGED <<hnd, ev, fsys>>

\* Log::commit, one iteration of install_commit; the last one is followed by
\* buffer_outstanding.clear()
CommitInstall(t) ==
    /\ mode = "run"
    /\ pc[t] = "commit"
    /\ CommitOrder[stage] = "inst"
    /\ IF Overlap(lh, ci)
       THEN /\ pc' = [pc EXCEPT ![t] = "panic"]
            /\ poisoned' = TRUE
            /\ UNCHANGED <<disk, cache, cmap, stage, ci, pins>>
       ELSE LET r == CommitIo
            IN  /\ r.ok
                /\ SetSt(r)
                /\ LoopNext(lh.n)
                /\ pins' = IF ci + 1 >= lh.n THEN <<>> ELSE pins
                /\ UNCHANGED <<pc, poisoned>>
    /\ UNCHANGED <<lh, outstanding, lock, ops, wrote, cur, want, committed,
                   mode, crashes, remounts, crashed, cut>>
    /\ UNCHANGED <<hnd, ev, fsys>>

\* Log::commit, lh.n = 0 and write_head; then end_op's notify_all and return
CommitClear(t) ==
    /\ mode = "run"
    /\ pc[t] = "commit"
    /\ CommitOrder[stage] = "clear"
    /\ LET r == CommitIo
       IN  /\ r.ok
           /\ SetSt(r)
           /\ committed' = HomeOf(r.disk)
    /\ lh' = ClearedHeader(lh)
    /\ pc' = [NotifyAll(pc) EXCEPT ![t] = "idle"]
    /\ lock' = 0
    /\ stage' = 0
    /\ ci' = 0
    /\ UNCHANGED <<outstanding, pins, poisoned, ops, wrote, cur, want, mode,
                   crashes, remounts, crashed, cut>>
    /\ UNCHANGED <<hnd, ev, fsys>>

\* ---------------------------------------------------------------- crash and mount
\* power loss: the device keeps its blocks, everything in memory is gone, and
\* the next mount runs LogManager::init
Crash ==
    /\ mode \in {"run", "recover"}
    /\ crashes < MaxCrashes
    /\ crashes' = crashes + 1
    /\ crashed' = IF crashes = 0
                  THEN LET bs == {lh.block[i] : i \in 1 .. lh.n}
                       IN  [blocks |-> bs,
                            pre |-> [b \in bs |-> committed[b]],
                            post |-> [b \in bs |-> want[b]],
                            hn |-> disk[LOGSTART].n,
                            image |-> disk]
                  ELSE crashed
    /\ cut' = IF mode # "recover" THEN cut
              ELSE IF RecoverOrder[stage] = "inst" THEN ci
              ELSE IF RecoverOrder[stage] = "clear" THEN lh.n
              ELSE cut
    /\ cache' = NewCache
    /\ cmap' = NewMap
    /\ lh' = NewHeader
    /\ outstanding' = 0
    /\ pins' = <<>>
    /\ lock' = 0
    /\ poisoned' = FALSE
    /\ pc' = [t \in Threads |-> "gone"]
    /\ ci' = 0
    /\ ops' = [t \in Threads |-> 0]
    /\ wrote' = [t \in Threads |-> {}]
    /\ cur' = [t \in Threads |-> 0]
    /\ want' = [b \in HomeBlocks |-> 0]
    /\ committed' = [b \in HomeBlocks |-> 0]
    /\ mode' = "recover"
    /\ stage' = 1
    /\ UNCHANGED <<disk, remounts>>
    /\ UNCHANGED <<hnd, ev, fsys>>

RecFrame == UNCHANGED <<outstanding, lock, poisoned, pc, ops, wrote, cur, want,
                        committed, crashes, remounts, crashed, cut, hnd, ev, fsys>>

\* the call of Log::recover at position stage has returned
RecoverNext ==
    IF stage >= Len(RecoverOrder)
    THEN mode' = "mounted" /\ stage' = 0 /\ ci' = 0
    ELSE mode' = mode /\ stage' = stage + 1 /\ ci' = 0

\* Log::recover, read_head
RecoverReadHead ==
    /\ mode = "recover"
    /\ RecoverOrder[stage] = "read"
    /\ LET r == ReadHead(St, Held)
       IN  /\ r.ok
           /\ SetSt(r)
           /\ lh' = BufOf(r, LOGSTART).data
    /\ RecoverNext
    /\ UNCHANGED pins
    /\ RecFrame

\* Log::recover, one iteration of install_commit (or its empty loop)
RecoverInstall ==
    /\ mode = "recover"
    /\ RecoverOrder[stage] = "inst"
    /\ IF lh.n = 0
       THEN /\ RecoverNext
            /\ pins' = <<>>
            /\ UNCHANGED <<disk, cache, cmap>>
       ELSE IF Overlap(lh, ci)
       THEN /\ mode' = "panic"
            /\ UNCHANGED <<disk, cache, cmap, stage, ci, pins>>
       ELSE LET r == InstallStep(St, lh, ci, Held)
            IN  /\ r.ok
                /\ SetSt(r)
                /\ IF ci + 1 >= lh.n
                   THEN RecoverNext /\ pins' = <<>>
                   ELSE /\ ci' = ci + 1
                        /\ UNCHANGED <<mode, stage, pins>>
    /\ UNCHANGED lh
    /\ RecFrame

\* Log::recover, lh.n = 0 and write_head
RecoverClear ==
    /\ mode = "recover"
    /\ RecoverOrder[stage] = "clear"
    /\ LET r == WriteHead(St, ClearedHeader(lh), Held)
       IN  /\ r.ok
           /\ SetSt(r)
    /\ lh' = ClearedHeader(lh)
    /\ RecoverNext
    /\ UNCHANGED pins
    /\ RecFrame

\* Log::init on a new Log with the process (and its cache) still alive, as the
\* tests do
Remount ==
    /\ mode = "mounted"
    /\ remounts < MaxRemounts
    /\ remounts' = remounts + 1
    /\ lh' = NewHeader
    /\ pins' = <<>>
    /\ mode' = "recover"
    /\ stage' = 1
    /\ ci' = 0
    /\ UNCHANGED <<disk, cache, cmap, outstanding, lock, poisoned, pc, ops,
                   wrote, cur, want, committed, crashes, crashed, cut>>
    /\ UNCHANGED <<hnd, ev, fsys>>

\* ---------------------------------------------------------------- specifications
ThreadStep(t) ==
    \/ BeginOp(t)
    \/ OpWrite(t)
    \/ EndOp(t)
    \/ CommitWriteLog(t)
    \/ CommitWriteHead(t)
    \/ CommitInstall(t)
    \/ CommitClear(t)

Run == \E t \in Threads : ThreadStep(t)

Recover == RecoverReadHead \/ RecoverInstall \/ RecoverClear \/ Remount

\* the running system, no power loss
Next == Run

Spec == Init /\ [][Next]_vars

\* the running system with power loss and remount
NextCrash == Run \/ Crash \/ Recover

SpecCrash == Init /\ [][NextCrash]_vars

\* a mount of an image the program did not write itself: the header holds any
\* count up to MaxImageN and names, slot by slot, a home block or a block of
\* the log body; the log body blocks hold bytes no thread writes, each its own
ImageByte(b) == NThreads * MaxOps + (b - LOGSTART)
DstChoices == {LOGSTART + 1, OwnBlock(1, 0), OwnBlock(1, 1)}
ImageHeaders ==
    {[n |-> k, block |-> [i \in 1 .. LOG_BODY_LEN |-> IF i <= k THEN f[i] ELSE 0]] :
        k \in 0 .. MaxImageN, f \in [1 .. MaxImageN -> DstChoices]}
ImageDisk(h) ==
    [b \in DOMAIN MkfsDisk |->
        IF b = LOGSTART THEN h
        ELSE IF b \in LogBlocks THEN ImageByte(b)
        ELSE 0]

InitImage ==
    /\ \E h \in ImageHeaders :
          /\ disk = ImageDisk(h)
          /\ crashed = [blocks |-> {}, pre |-> <<>>, post |-> <<>>,
                        hn |-> h.n, image |-> ImageDisk(h)]
    /\ cache = NewCache
    /\ cmap = NewMap
    /\ lh = NewHeader
    /\ outstanding = 0
    /\ pins = <<>>
    /\ lock = 0
    /\ poisoned = FALSE
    /\ pc = [t \in Threads |-> "gone"]
    /\ ci = 0
    /\ ops = [t \in Threads |-> 0]
    /\ wrote = [t \in Threads |-> {}]
    /\ cur = [t \in Threads |-> 0]
    /\ want = [b \in HomeBlocks |-> 0]
    /\ committed = [b \in HomeBlocks |-> 0]
    /\ mode = "recover"
    /\ stage = 1
    /\ crashes = 1
    /\ remounts = 0
    /\ cut = 0
    /\ hnd = [t \in Threads |-> NoHandle]
    /\ ev = NoEvent
    /\ fsys = NoFs

NextImage == Crash \/ Recover

SpecImage == InitImage /\ [][NextImage]_vars

\* ---------------------------------------------------------------- cache alone
\* The buffer cache used directly, as the tests of buffer.rs and
\* test_delay_write use it: threads get a handle, read or write the buffer
\* under its RwLock, sync it, and drop the handle. The blocks asked for are
\* those of shard 0, one more than the shard holds.
CacheBlocks == {0, SHARD_NUM, 2 * SHARD_NUM}

\* the threads that use the cache directly
CacheThreads == Threads \ {NThreads}

\* what the test images hold before the cache is used: a byte per block
DevByte(b) == b + 1

\* the byte thread t stores
NewByte(t) == BLOCK_NUM + 2 * SHARD_NUM + t

CacheFrame == UNCHANGED <<lh, outstanding, pins, lock, poisoned, pc, ci, ops,
                          wrote, cur, committed, mode, stage, crashes,
                          remounts, crashed, cut, fsys>>

InitCache ==
    /\ disk = [b \in CacheBlocks |-> DevByte(b)]
    /\ cache = NewCache
    /\ cmap = NewMap
    /\ want = [b \in CacheBlocks |-> DevByte(b)]
    /\ lh = NewHeader
    /\ outstanding = 0
    /\ pins = <<>>
    /\ lock = 0
    /\ poisoned = FALSE
    /\ pc = [t \in Threads |-> "idle"]
    /\ ci = 0
    /\ ops = [t \in Threads |-> 0]
    /\ wrote = [t \in Threads |-> {}]
    /\ cur = [t \in Threads |-> 0]
    /\ committed = [b \in HomeBlocks |-> 0]
    /\ mode = "cache"
    /\ stage = 0
    /\ crashes = 0
    /\ remounts = 0
    /\ crashed = NoCrash
    /\ cut = 0
    /\ hnd = [t \in Threads |-> NoHandle]
    /\ ev = NoEvent
    /\ fsys = NoFs

\* whether LruHandle::get finds block b in the map of its shard
IsHit(b) == b \in cmap[ShardOf(b)] /\ PosOf(cache[ShardOf(b)], b) # 0

\* the position LruHandle::get takes out of the list: the node of the map on a
\* hit, the victim on a miss
TakenPos(b) ==
    IF IsHit(b) THEN PosOf(cache[ShardOf(b)], b)
    ELSE Victim(cache[ShardOf(b)], {})

\* a handle is a pointer to its buffer: when the node at position k of shard s
\* leaves its place for the tail, the positions behind it move up
Reseat(h, s, k) ==
    IF h.i = 0 \/ h.s # s \/ h.i < k THEN h
    ELSE IF h.i = k THEN [h EXCEPT !.i = ShardCap]
    ELSE [h EXCEPT !.i = @ - 1]

\* get_buffer_block(b, dev) returning: the clone of the Arc goes to thread t
CacheGet(t, b) ==
    /\ mode = "cache"
    /\ hnd[t] = NoHandle
    /\ LET g == GetBuffer(St, b, {})
           s == ShardOf(b)
           k == TakenPos(b)
       IN  /\ g.ok
           /\ cache' = [g.cache EXCEPT ![s][ShardCap].rc = @ + 1]
           /\ cmap' = g.cmap
           /\ disk' = g.disk
           /\ hnd' = [u \in Threads |->
                        IF u = t THEN [s |-> s, i |-> ShardCap, id |-> b]
                        ELSE Reseat(hnd[u], s, k)]
           /\ ev' = [op |-> IF IsHit(b) THEN "hit" ELSE "miss", t |-> t,
                     id |-> b,
                     flushed |-> ~IsHit(b) /\ cache[s][k].dirty,
                     evicted |-> ~IsHit(b) /\ cache[s][k].dev]
    /\ UNCHANGED want
    /\ CacheFrame

\* buffer.write().unwrap().as_mut(0) and a store through the reference
CacheWrite(t) ==
    /\ mode = "cache"
    /\ hnd[t] # NoHandle
    /\ SetSt(PutAt(St, hnd[t].s, hnd[t].i, NewByte(t)))
    /\ want' = [want EXCEPT ![hnd[t].id] = NewByte(t)]
    /\ ev' = [op |-> "write", t |-> t, id |-> hnd[t].id, flushed |-> FALSE,
              evicted |-> FALSE]
    /\ UNCHANGED hnd
    /\ CacheFrame

\* buffer.write().unwrap().sync()
CacheSync(t) ==
    /\ mode = "cache"
    /\ hnd[t] # NoHandle
    /\ SetSt(SyncAt(St, hnd[t].s, hnd[t].i))
    /\ ev' = [op |-> "sync", t |-> t, id |-> hnd[t].id,
              flushed |-> cache[hnd[t].s][hnd[t].i].dirty, evicted |-> FALSE]
    /\ UNCHANGED <<hnd, want>>
    /\ CacheFrame

\* the handle goes out of scope: the clone of the Arc is dropped
CacheRelease(t) ==
    /\ mode = "cache"
    /\ hnd[t] # NoHandle
    /\ cache' = [cache EXCEPT ![hnd[t].s][hnd[t].i].rc = @ - 1]
    /\ hnd' = [hnd EXCEPT ![t] = NoHandle]
    /\ ev' = [op |-> "release", t |-> t, id |-> hnd[t].id, flushed |-> FALSE,
              evicted |-> FALSE]
    /\ UNCHANGED <<cmap, disk, want>>
    /\ CacheFrame

NextCache ==
    \E t \in CacheThreads :
        \/ \E b \in CacheBlocks : CacheGet(t, b)
        \/ CacheWrite(t)
        \/ CacheSync(t)
        \/ CacheRelease(t)

SpecCache == InitCache /\ [][NextCache]_vars

\* ---------------------------------------------------------------- claims
Mounted == mode = "mounted" /\ crashes >= 1

\* the header on the device when the power was lost
CrashHeader == crashed.image[LOGSTART]

\* C1: after a crash at any point of the device writes of a group of
\* operations and its commit, the completed recovery leaves the home blocks
\* logged by that group all at their pre-transaction images or all at their
\* post-transaction images; which of the two is decided by whether the header
\* with n > 0 had reached the device.
C1_CrashAtomicity ==
    Mounted =>
        IF crashed.hn > 0
        THEN \A b \in crashed.blocks : disk[b] = crashed.post[b]
        ELSE \A b \in crashed.blocks : disk[b] = crashed.pre[b]

\* a crash in the middle of install_commit: the header was on the device, one
\* logged home block already new and another still old, and recovery made
\* both new
C1_Witness ==
    /\ Mounted
    /\ crashed.hn > 0
    /\ \E b1, b2 \in crashed.blocks :
          /\ crashed.pre[b1] # crashed.post[b1]
          /\ crashed.pre[b2] # crashed.post[b2]
          /\ crashed.image[b1] = crashed.post[b1]
          /\ crashed.image[b2] = crashed.pre[b2]
          /\ disk[b1] = crashed.post[b1]
          /\ disk[b2] = crashed.post[b2]

\* C9 as claimed: on any image (any header count, any destinations), recovery
\* run again after it has completed, or interrupted by a crash after any of
\* its device writes and run again, ends with the image one uninterrupted
\* recovery produces.
C9_AnyImage == mode = "mounted" => disk = RecoverDisk(crashed.image)

\* the header names no block of the log area as a destination
DstOutsideLog(h) ==
    \A i \in 1 .. h.n : h.block[i] \notin ({LOGSTART} \cup LogBlocks)

\* C9 as amended: the same, on any image whose header names no block of the
\* log area as a destination (the destinations may repeat).
C9_RecoveryIdempotent ==
    (mode = "mounted" /\ DstOutsideLog(CrashHeader)) =>
        disk = RecoverDisk(crashed.image)

\* a log of two blocks or more, recovery cut by a crash after its first
\* install, completed on the next mount and then run once more
C9_Witness ==
    /\ mode = "mounted"
    /\ DstOutsideLog(CrashHeader)
    /\ crashes = 2
    /\ remounts = 1
    /\ CrashHeader.n >= 2
    /\ cut = 1
    /\ disk # crashed.image

\* C10: when the mount-time recovery has completed, the in-memory header and
\* the header on the device have n = 0 and every home block named by the
\* header found at mount equals its log body block.
C10_RecoveryEmptiesLog ==
    Mounted =>
        /\ lh.n = 0
        /\ disk[LOGSTART].n = 0
        /\ \A i \in 1 .. CrashHeader.n :
              disk[CrashHeader.block[i]] = disk[LOGSTART + i]

\* a committed log of two blocks whose home blocks were both still old
C10_Witness ==
    /\ Mounted
    /\ CrashHeader.n >= 2
    /\ \A i \in 1 .. CrashHeader.n :
          crashed.image[CrashHeader.block[i]] # crashed.image[LOGSTART + i]
    /\ lh.n = 0

\* ---- the running system
LoggedBlocks == {lh.block[i] : i \in 1 .. lh.n}

\* the latest operation of t has returned from end_op and logged something
Ended(t) == pc[t] = "idle" /\ wrote[t] # {}

\* a crash now, followed by recovery, keeps what t's latest operation logged
Durable(t, d) == \A b \in wrote[t] : RecoverDisk(d)[b] = WriteVal(t, ops[t])

\* C2 as claimed: when end_op returns to t, every block t logged since its
\* begin_op survives a crash that follows at once, whether or not other
\* operations are still outstanding.
C2_DurableOnReturn ==
    [][\A t \in Threads :
          (pc[t] \in {"inop", "commit"} /\ pc'[t] = "idle") =>
              \A b \in wrote[t] : RecoverDisk(disk')[b] = want'[b]]_vars

\* C2 as amended: when an end_op that found no other operation outstanding,
\* and so ran the commit, returns, every block logged since the last commit
\* (the caller's and those of the operations that ended before it) survives a
\* crash that follows at once.
C2_DurableOnCommitReturn ==
    [][\A t \in Threads :
          (pc[t] = "commit" /\ pc'[t] = "idle") =>
              /\ wrote[t] \subseteq LoggedBlocks
              /\ \A b \in LoggedBlocks : RecoverDisk(disk')[b] = want'[b]]_vars

\* two threads have each run one operation on one block, one commit carried
\* both blocks (log slots 1 and 2 hold the two bytes) and both are on the device
C2_Witness ==
    /\ mode = "run" /\ lock = 0 /\ outstanding = 0 /\ lh.n = 0
    /\ \E t, u \in Threads :
          /\ t # u
          /\ Sum(ops, Threads) = 2
          /\ Ended(t) /\ Ended(u)
          /\ Cardinality(wrote[t]) = 1 /\ Cardinality(wrote[u]) = 1
          /\ disk[LOGSTART + 1] = WriteVal(t, 1)
          /\ disk[LOGSTART + 2] = WriteVal(u, 1)
          /\ Durable(t, disk) /\ Durable(u, disk)

\* C3 as claimed: when begin_op returns to T2, the blocks of every operation
\* whose end_op had returned before T2 called begin_op survive a crash.
C3_CommittedBeforeNextBegin ==
    [][\A t2 \in Threads :
          (pc[t2] = "idle" /\ pc'[t2] = "inop") =>
              \A t1 \in Threads \ {t2} : Ended(t1) => Durable(t1, disk')]_vars

\* C3 as amended: when begin_op returns to T2, the blocks of every operation
\* whose end_op had returned are either durable already or still entries of
\* the in-memory log, pinned in the cache with the logged byte, so that the
\* commit that makes T2's blocks durable carries them too.
C3_CommittedOrInLog ==
    [][\A t2 \in Threads :
          (pc[t2] \in {"idle", "woken"} /\ pc'[t2] = "inop") =>
              \A t1 \in Threads \ {t2} :
                  Ended(t1) =>
                      \/ Durable(t1, disk')
                      \/ /\ wrote[t1] \subseteq LoggedBlocks'
                         /\ wrote[t1] \subseteq Range(pins')
                         /\ \A b \in wrote[t1] :
                               CacheRead(b)' = WriteVal(t1, ops[t1])]_vars

\* T2 has been admitted while the blocks of T1, which has returned from
\* end_op, are only in the in-memory log
C3_Witness ==
    \E t1, t2 \in Threads :
        /\ t1 # t2
        /\ pc[t2] = "inop" /\ wrote[t2] = {}
        /\ Ended(t1)
        /\ ~Durable(t1, disk)
        /\ wrote[t1] \subseteq LoggedBlocks

\* C4: begin_op increments outstanding only when
\* n + outstanding * MAXOPBLOCKS <= LOG_BODY_LEN holds after the increment.
C4_AdmitWithinBody ==
    [][\A t \in Threads :
          (pc[t] # "inop" /\ pc'[t] = "inop") =>
              lh'.n + outstanding' * MAXOPBLOCKS <= LOG_BODY_LEN]_vars

\* C5: with every operation logging at most MAXOPBLOCKS distinct blocks, the
\* number of logged blocks never exceeds LOG_BODY_LEN and log_write neither
\* fails its assertion nor indexes outside the header's array.
C5_NoOverflow ==
    /\ lh.n <= LOG_BODY_LEN
    /\ \A t \in Threads : pc[t] # "oob"

\* C6: while a commit runs, from the end_op that starts it to the cleared
\* header, outstanding is 0 and stays 0, no begin_op is admitted and no
\* log_write changes the in-memory header.
C6_CommitExclusive ==
    [][(\E t \in Threads : pc[t] = "commit") =>
          /\ outstanding = 0
          /\ outstanding' = 0
          /\ \A u \in Threads : pc'[u] = "inop" => pc[u] = "inop"
          /\ \A u \in Threads : pc[u] # "inop"
          /\ lh'.block = lh.block
          /\ lh'.n \in {lh.n, 0}]_vars

\* a commit is installing while another thread, woken from its wait in
\* begin_op, is ready to test the log again
C6_Witness ==
    \E t, u \in Threads :
        /\ pc[t] = "commit"
        /\ CommitOrder[stage] = "inst"
        /\ pc[u] = "woken"

\* every thread is between operations
Quiescent == mode = "run" /\ \A t \in Threads : pc[t] = "idle"

\* C7: when every thread has returned from end_op, each block reads back,
\* through the cache and from the device, the last byte written to it,
\* outstanding is 0, the in-memory header and the header on the device have
\* n = 0.
C7_GroupCommitEndState ==
    Quiescent =>
        /\ \A b \in HomeBlocks : CacheRead(b) = want[b] /\ disk[b] = want[b]
        /\ outstanding = 0
        /\ lh.n = 0
        /\ disk[LOGSTART].n = 0

\* every thread has run an operation that wrote its own block
C7_Witness ==
    /\ Quiescent
    /\ \A t \in Threads : ops[t] >= 1 /\ wrote[t] # {} /\ Durable(t, disk)
    /\ \A t \in Threads : \E b \in Own(t) : disk[b] # 0 /\ CacheRead(b) = disk[b]

\* t is inside begin_op: on the condition variable, or woken and taking the
\* mutex again
Waiting(t) == pc[t] \in {"wait", "woken"}

\* C8: every thread that calls begin_op is eventually admitted, given that
\* every admitted operation calls end_op. A thread waiting in begin_op is
\* admitted only after the commit in progress has called notify_all, so the
\* claim needs this: whenever a thread waits in begin_op while a commit runs
\* (every admitted operation has called end_op), the cache can serve the
\* request the commit is at.
C8_WaiterAdmitted ==
    ((\E t \in Threads : Waiting(t)) /\ (\E u \in Threads : pc[u] = "commit"))
        => (outstanding = 0 /\ CommitIo.ok)

\* ---- absorption and pinning
\* the entries dst[0..n) of header h are pairwise distinct
Distinct(h) == \A i, j \in 1 .. h.n : i # j => h.block[i] # h.block[j]

\* this step is a log_write by t (of block OwnBlock(t, cur[t])) that got past
\* the lock
LogWriteStep(t) == pc[t] = "inop" /\ cur'[t] # cur[t] /\ ~poisoned

\* C11: a log_write of a block already in dst[0..n) leaves n, dst and the
\* pins unchanged; n grows only by a log_write of a block not yet in dst, and
\* then by exactly 1 with the block in the new slot and one more pin; the
\* entries dst[0..n) stay pairwise distinct.
C11_Absorption ==
    [][/\ Distinct(lh')
       /\ \A t \in Threads :
             LogWriteStep(t) =>
                 LET b == OwnBlock(t, cur[t])
                 IN  /\ b \in LoggedBlocks => (lh' = lh /\ pins' = pins)
                     /\ (b \notin LoggedBlocks /\ pc'[t] = "inop") =>
                            /\ lh'.n = lh.n + 1
                            /\ lh'.block[lh'.n] = b
                            /\ pins' = Append(pins, b)
                     /\ lh'.n # lh.n =>
                            (b \notin LoggedBlocks /\ lh'.n = lh.n + 1)
       /\ (\A t \in Threads : ~LogWriteStep(t)) => lh'.n \in {lh.n, 0}]_vars

\* thread t, in its second operation, logged c and then b; b sits in a lower
\* slot than c because it was in the log since t's first operation
C11_Witness ==
    \E t \in Threads : \E b, c \in wrote[t] :
        /\ pc[t] = "inop" /\ ops[t] = 2
        /\ b = OwnBlock(t, (cur[t] + OwnLen - 1) % OwnLen)
        /\ c # b
        /\ b \in LoggedBlocks /\ c \in LoggedBlocks
        /\ SlotOf(lh, b) < SlotOf(lh, c)
        /\ Len(pins) = lh.n
        /\ want[b] = WriteVal(t, 2)

\* block b has a buffer in its shard that the shard's map finds
Resident(b) == b \in cmap[ShardOf(b)] /\ PosOf(cache[ShardOf(b)], b) # 0

\* C12: whenever the log lock is free, buffer_outstanding has n entries and
\* entry i is a handle to the resident buffer of dst[i]; as long as the
\* header with n > 0 is not on the device no logged home block has been
\* evicted or written to its home location; and the handles are released
\* only when install has written every logged home block.
C12_LogPinning ==
    /\ []((mode = "run" /\ lock = 0) =>
            /\ Len(pins) = lh.n
            /\ \A i \in 1 .. lh.n : pins[i] = lh.block[i] /\ Resident(pins[i])
            /\ \A b \in LoggedBlocks :
                  disk[b] = committed[b] /\ CacheRead(b) = want[b])
    /\ []((mode = "run" /\ disk[LOGSTART].n = 0 /\ pins # <<>>) =>
            \A b \in Range(pins) : Resident(b) /\ disk[b] = committed[b])
    /\ [][(pins # <<>> /\ pins' # pins /\ Len(pins') <= Len(pins)) =>
            /\ pins' = <<>>
            /\ \A b \in Range(pins) : disk'[b] = want[b]]_vars

\* two operations have ended and a third is running: the log holds blocks of
\* ended operations that are only in the cache, in a shard that is full
C12_Witness ==
    /\ mode = "run" /\ lock = 0 /\ outstanding = 1
    /\ disk[LOGSTART].n = 0
    /\ \E t, u \in Threads :
          /\ t # u /\ Ended(t) /\ Ended(u)
          /\ wrote[t] \cup wrote[u] \subseteq LoggedBlocks
          /\ \E b \in wrote[t], c \in wrote[u] :
                /\ ShardOf(b) = ShardOf(c)
                /\ disk[b] # want[b] /\ disk[c] # want[c]

\* C13: every get_buffer_block call eventually returns. The commit holds the
\* log mutex and is the only thread that releases the log's pins, so for its
\* calls the claim needs this: whenever a thread is inside Log::commit, the
\* cache can serve the request the commit is at.
C13_CommitGetReturns ==
    \A u \in Threads : pc[u] = "commit" => CommitIo.ok

\* the buffers of the pool that hold a block
ResidentCount == Sum([s \in Shards |->
                        Cardinality({i \in DOMAIN cache[s] : cache[s][i].dev})],
                     Shards)

\* C14: after any sequence of gets (hits, and misses with eviction) and
\* releases, the list of every shard holds exactly BLOCK_NUM / SHARD_NUM
\* buffers, and no more than BLOCK_NUM buffers are resident.
C14_PoolBound ==
    /\ \A s \in Shards : Len(cache[s]) = ShardCap
    /\ ResidentCount <= BLOCK_NUM

\* a miss has just replaced a loaded buffer of a full shard
C14_Witness ==
    /\ ev.op = "miss" /\ ev.evicted
    /\ \A i \in DOMAIN cache[ShardOf(ev.id)] : cache[ShardOf(ev.id)][i].dev

\* the threads whose handle is the buffer at position i of shard s
Holders(s, i) == {t \in Threads : hnd[t].i = i /\ hnd[t].s = s /\ i # 0}

\* Arc::strong_count of the buffer at position i of shard s
StrongCount(s, i) == 1 + cache[s][i].rc

\* a step in which get_buffer_block returns to thread t
GetStep(t) == hnd[t] = NoHandle /\ hnd'[t] # NoHandle

\* C15: no buffer is evicted while a handle to it exists outside the cache.
\* Every handle still leads to a resident buffer of the block it was got for,
\* the reference count of every buffer is 1 plus the number of handles to it,
\* a miss replaces only a buffer whose count is 1, and a get of a block that
\* nobody else holds returns a handle whose count is exactly 2.
C15_NoEvictionWhileHeld ==
    /\ [](\A t \in Threads : hnd[t] # NoHandle =>
              /\ cache[hnd[t].s][hnd[t].i].dev
              /\ cache[hnd[t].s][hnd[t].i].id = hnd[t].id)
    /\ [](\A s \in Shards : \A i \in DOMAIN cache[s] :
              StrongCount(s, i) = 1 + Cardinality(Holders(s, i)))
    /\ [][\A t \in Threads : GetStep(t) =>
              LET b == hnd'[t].id
                  s == ShardOf(b)
              IN  /\ ~IsHit(b) =>
                        /\ StrongCount(s, TakenPos(b)) = 1
                        /\ Holders(s, TakenPos(b)) = {}
                  /\ (\A u \in Threads \ {t} : hnd[u].id # b \/ hnd[u] = NoHandle)
                        => cache'[s][hnd'[t].i].rc + 1 = 2]_vars

\* a miss has just passed over the held buffer at the LRU end of its shard and
\* replaced the loaded buffer behind it
C15_Witness ==
    /\ ev.op = "miss" /\ ev.evicted
    /\ \E t \in Threads : hnd[t].i = 1 /\ hnd[t].s = ShardOf(ev.id)

\* the block ids of the loaded buffers of shard s
LoadedIds(s) == {cache[s][i].id : i \in {j \in DOMAIN cache[s] : cache[s][j].dev}}

\* C16: a shard never holds two resident buffers of one block id, its map
\* holds exactly the ids of its loaded buffers, and two handles held for one
\* block id are handles to the same buffer; block 0 is no exception.
C16_SingleIdentity ==
    /\ \A s \in Shards : \A i, j \in DOMAIN cache[s] :
          (cache[s][i].dev /\ cache[s][j].dev /\ cache[s][i].id = cache[s][j].id)
              => i = j
    /\ \A s \in Shards : cmap[s] = LoadedIds(s)
    /\ \A t, u \in Threads :
          (hnd[t] # NoHandle /\ hnd[u] # NoHandle /\ hnd[t].id = hnd[u].id)
              => hnd[t] = hnd[u]

\* C17: the buffer a get returns for block b holds the data last written to b
\* through the cache, or the device content of b if b was never written.
C17_GetReturnsLatest ==
    [][\A t \in Threads : GetStep(t) =>
          cache'[hnd'[t].s][hnd'[t].i].data = want[hnd'[t].id]]_vars

\* the device after buffer buf went to it
Flushed(buf) == [disk EXCEPT ![buf.id] = buf.data]

\* C18: a write sets the dirty bit and changes the buffer only, the device
\* keeps its content; a sync of a dirty buffer writes its data to the block of
\* its id and clears the bit; a sync of a clean buffer writes nothing; a
\* dirty buffer that a miss destroys is written to the device before the new
\* block is read; a hit or a release writes nothing.
C18_DelayedWriteBack ==
    [][LET h == hnd[ev'.t]
           s == ShardOf(ev'.id)
       IN  /\ ev'.op = "write" =>
                 /\ disk' = disk
                 /\ cache'[h.s][h.i].dirty
                 /\ cache'[h.s][h.i].data = NewByte(ev'.t)
                 /\ \A i \in DOMAIN cache[h.s] : i # h.i =>
                        cache'[h.s][i] = cache[h.s][i]
           /\ ev'.op = "sync" =>
                 /\ disk' = IF cache[h.s][h.i].dirty
                            THEN Flushed(cache[h.s][h.i]) ELSE disk
                 /\ ~cache'[h.s][h.i].dirty
                 /\ cache'[h.s][h.i].data = cache[h.s][h.i].data
           /\ ev'.op = "miss" =>
                 /\ disk' = IF cache[s][TakenPos(ev'.id)].dirty
                            THEN Flushed(cache[s][TakenPos(ev'.id)]) ELSE disk
                 /\ cache'[s][ShardCap].data = disk'[ev'.id]
                 /\ ~cache'[s][ShardCap].dirty
           /\ ev'.op \in {"hit", "release"} => disk' = disk]_vars

\* a miss has just destroyed a dirty buffer and flushed it, while another
\* buffer is written and not yet on the device
C18_Witness ==
    /\ ev.op = "miss" /\ ev.flushed
    /\ \E s \in Shards : \E i \in DOMAIN cache[s] :
          /\ cache[s][i].dirty
          /\ disk[cache[s][i].id] # cache[s][i].data

\* ---------------------------------------------------------------- inodes
\* The inode and file layers as the shell of main.rs drives them: one thread,
\* every operation between log_begin and log_end taken as one committed
\* transaction. A state f of the layer holds the bitmap bits of the data
\* blocks, the on-disk inodes, the data blocks read as directory entries or as
\* block addresses, the in-memory inode table, and slot 1 of the file table.
\* Names are sequences of characters, paths sequences of names.
NoEntry == [name |-> <<>>, inum |-> 0]
ZeroAddrs == [k \in 1 .. (NDIRECT + 1) |-> 0]
FreeInode == [ftype |-> "Free", nlink |-> 0, size |-> 0, addrs |-> ZeroAddrs]

\* an entry of the inode table nobody outside the table holds: get_inode
\* passes it over and puts a fresh inode in its place
NoCopy == [refs |-> 0, loaded |-> FALSE, copy |-> FreeInode]
ZeroBlock == [ents |-> <<>>, ptrs |-> [k \in 1 .. NINDIRECT |-> 0],
              bytes |-> [k \in 1 .. BSIZE |-> 0]]

Dot == <<".">>
DotDot == <<".", ".">>

\* the first block after the metadata, which mkfs gives to the root directory
RootBlock == CHOOSE b \in DataBlocks : \A c \in DataBlocks : b <= c

\* mkfs, then Shell::new: the root directory with "." and ".." and a size of
\* three entries, its block marked in the bitmap, and the root opened in slot
\* 0 of the file table for the life of the shell
MkfsFs ==
    [alive |-> TRUE,
     bits |-> {RootBlock},
     din |-> [i \in Inums |->
                IF i = ROOTINO
                THEN [ftype |-> "Dir", nlink |-> 1, size |-> 3,
                      addrs |-> [ZeroAddrs EXCEPT ![1] = RootBlock]]
                ELSE FreeInode],
     blk |-> [b \in DataBlocks |->
                IF b = RootBlock
                THEN [ZeroBlock EXCEPT !.ents =
                        <<[name |-> Dot, inum |-> ROOTINO],
                          [name |-> DotDot, inum |-> ROOTINO]>>]
                ELSE ZeroBlock],
     mem |-> [i \in Inums |->
                IF i = ROOTINO
                THEN [refs |-> 1, loaded |-> TRUE,
                      copy |-> [ftype |-> "Dir", nlink |-> 1, size |-> 3,
                                addrs |-> [ZeroAddrs EXCEPT ![1] = RootBlock]]]
                ELSE NoCopy],
     slot |-> [path |-> <<>>, ip |-> 0, off |-> 0],
     gone |-> {},
     rms |-> 0]

\* namecmp(s, t): every character of t is found at its place in s
NameCmp(s, t) == Len(t) <= Len(s) /\ SubSeq(s, 1, Len(t)) = t

\* entry k (from 0) of a block read as a directory; unwritten bytes are zero
EntAt(blk, k) == IF k + 1 <= Len(blk.ents) THEN blk.ents[k + 1] ELSE NoEntry

\* entry k of a block written
PutEnt(ents, k, e) ==
    [j \in 1 .. (IF k + 1 > Len(ents) THEN k + 1 ELSE Len(ents)) |->
        IF j = k + 1 THEN e ELSE IF j <= Len(ents) THEN ents[j] ELSE NoEntry]

\* InodePtr::read_disk_inode: the copy is loaded from the disk on first use
LoadCopy(f, i) ==
    IF f.mem[i].loaded THEN f
    ELSE [f EXCEPT !.mem[i].copy = f.din[i], !.mem[i].loaded = TRUE]

CopyOf(f, i) == LoadCopy(f, i).mem[i].copy

\* InodePtr::modify_disk_inode: the closure's result c becomes the copy, and
\* the whole copy is written to the inode's place on the disk
ModifyCopy(f, i, c) ==
    [LoadCopy(f, i) EXCEPT !.mem[i].copy = c, !.din[i] = c]

\* InodePtrManager::get_inode: another reference to a held inode, or a fresh
\* entry with no copy
GetInode(f, i) ==
    IF f.mem[i].refs > 0 THEN [f EXCEPT !.mem[i].refs = @ + 1]
    ELSE [f EXCEPT !.mem[i] = [refs |-> 1, loaded |-> FALSE, copy |-> FreeInode]]

\* block_free: the bit is cleared and the bitmap block synced
BlockFree(f, b) == [f EXCEPT !.bits = @ \ {b}]

RECURSIVE FreeAll(_, _)
FreeAll(f, bs) ==
    IF bs = {} THEN f
    ELSE LET b == CHOOSE x \in bs : TRUE IN FreeAll(BlockFree(f, b), bs \ {b})

\* the blocks Inode::truncate frees for the inode c, and c after it
TruncBlocks(f, c) ==
    {c.addrs[k] : k \in 1 .. NDIRECT} \cup
    (IF c.addrs[NDIRECT + 1] > 0
     THEN {c.addrs[NDIRECT + 1]} \cup
          {f.blk[c.addrs[NDIRECT + 1]].ptrs[k] : k \in 1 .. NINDIRECT}
     ELSE {})

Truncate(f, c) ==
    [f |-> FreeAll(f, TruncBlocks(f, c) \ {0}), c |-> [c EXCEPT !.addrs = ZeroAddrs]]

\* Drop for InodePtr. The last reference outside the table to an inode whose
\* loaded copy has nlink 0 truncates it and writes ftype Free and size 0 into
\* the inode on the disk, leaving the other fields there. logged says whether
\* that write reaches the log: it does inside a transaction; outside one the
\* call either fails, which ends the shell, or is taken up by a later commit.
DropInode(f, i, logged) ==
    IF f.mem[i].refs = 1 /\ f.mem[i].loaded /\ f.mem[i].copy.nlink = 0
    THEN Bind(Truncate(f, f.mem[i].copy),
              LAMBDA t :
                  IF logged
                  THEN [t.f EXCEPT !.mem[i] = NoCopy,
                                   !.din[i].ftype = "Free", !.din[i].size = 0]
                  ELSE [t.f EXCEPT !.mem[i] = NoCopy, !.alive = FALSE])
    ELSE IF f.mem[i].refs = 1 THEN [f EXCEPT !.mem[i] = NoCopy]
    ELSE [f EXCEPT !.mem[i].refs = @ - 1]

\* the least element of a set of numbers, d if it is empty
MinOr(S, d) == IF S = {} THEN d ELSE CHOOSE x \in S : \A y \in S : x <= y

\* the first clear bit of the bitmap blocks, 0 if all are set; the bits of the
\* metadata are set by mkfs, the bits behind the last block of the image are not
FirstZeroBit(f) == MinOr({x \in 1 .. (BitmapBits - 1) : x \notin f.bits}, 0)

\* block_alloc: the first clear bit is set and the block zeroed; b = 0 is
\* None, and also the panic of reading a block behind the end of the image
\* to zero it; pick is the bit found
BlockAlloc(f) ==
    Bind(FirstZeroBit(f), LAMBDA x :
        IF x = 0 \/ x >= SBSize THEN [f |-> f, b |-> 0, pick |-> x]
        ELSE [f |-> [f EXCEPT !.bits = @ \cup {x}, !.blk[x] = ZeroBlock],
              b |-> x, pick |-> x])

\* block_map: the address of block bn of inode i, allocated if it is 0. A
\* new address of the inode goes into the copy in memory only; a new address
\* in the indirect block is written to that block. ok = FALSE is the unwrap
\* of None when no block is free.
BlockMap(f, i, bn) ==
    Bind(LoadCopy(f, i), LAMBDA f0 :
        IF bn < NDIRECT
        THEN IF f0.mem[i].copy.addrs[bn + 1] = 0
             THEN Bind(BlockAlloc(f0), LAMBDA a :
                      [f |-> [a.f EXCEPT !.mem[i].copy.addrs[bn + 1] = a.b],
                       b |-> a.b, ok |-> a.b # 0])
             ELSE [f |-> f0, b |-> f0.mem[i].copy.addrs[bn + 1], ok |-> TRUE]
        ELSE IF bn - NDIRECT < NINDIRECT
        THEN Bind(IF f0.mem[i].copy.addrs[NDIRECT + 1] = 0 THEN BlockAlloc(f0)
                  ELSE [f |-> f0, b |-> f0.mem[i].copy.addrs[NDIRECT + 1]],
                  LAMBDA a1 :
                      IF a1.b = 0 THEN [f |-> f0, b |-> 0, ok |-> FALSE]
                      ELSE Bind([a1.f EXCEPT !.mem[i].copy.addrs[NDIRECT + 1] = a1.b],
                                LAMBDA f1 :
                                    IF f1.blk[a1.b].ptrs[bn - NDIRECT + 1] = 0
                                    THEN Bind(BlockAlloc(f1), LAMBDA a2 :
                                             [f |-> [a2.f EXCEPT
                                                       !.blk[a1.b].ptrs[bn - NDIRECT + 1] = a2.b],
                                              b |-> a2.b, ok |-> a2.b # 0])
                                    ELSE [f |-> f1,
                                          b |-> f1.blk[a1.b].ptrs[bn - NDIRECT + 1],
                                          ok |-> TRUE]))
        ELSE [f |-> f0, b |-> 0, ok |-> TRUE])

\* rinode of entry k of directory dp: nothing beyond the size of the copy.
\* The directories of the model keep their entries in their first block.
ReadEnt(f, dp, k) ==
    LET c == CopyOf(f, dp)
    IN  IF k < c.size /\ c.addrs[1] # 0 THEN EntAt(f.blk[c.addrs[1]], k)
        ELSE NoEntry

\* winode of entry e at place k of directory dp: the block is mapped, the
\* block written, and the copy written back only when the size grows
WriteEnt(f, dp, k, e) ==
    Bind(BlockMap(f, dp, 0), LAMBDA m :
        IF ~m.ok THEN [f |-> f, ok |-> FALSE]
        ELSE Bind([m.f EXCEPT !.blk[m.b].ents = PutEnt(@, k, e)], LAMBDA f1 :
                 IF k + 1 > f1.mem[dp].copy.size
                 THEN [f |-> ModifyCopy(f1, dp, [f1.mem[dp].copy EXCEPT !.size = k + 1]),
                       ok |-> TRUE]
                 ELSE [f |-> f1, ok |-> TRUE]))

\* dirlink: the first entry with inum 0 within the size on the disk, or the end
Dirlink(f, dp, name, inum) ==
    LET size == f.din[dp].size
        k == MinOr({j \in 0 .. (size - 1) : ReadEnt(f, dp, j).inum = 0}, size)
    IN  WriteEnt(LoadCopy(f, dp), dp, k, [name |-> name, inum |-> inum])

\* the place of the entry dirunlink blanks (the size if there is none), and
\* the inode it named
UnlinkSlot(f, dp, name) ==
    MinOr({j \in 0 .. (f.din[dp].size - 1) : NameCmp(ReadEnt(f, dp, j).name, name)},
          f.din[dp].size)

Dirunlink(f, dp, name) ==
    LET k == UnlinkSlot(f, dp, name)
    IN  IF ReadEnt(f, dp, k).inum = 0 THEN [f |-> f, ok |-> FALSE]
        ELSE WriteEnt(LoadCopy(f, dp), dp, k, NoEntry)

\* the blocks find_child and find_inode read entries from: the direct blocks,
\* then the children of the indirect block
DirAddrs(f, c) ==
    [k \in 1 .. NDIRECT |-> c.addrs[k]] \o
    (IF c.addrs[NDIRECT + 1] # 0 THEN f.blk[c.addrs[NDIRECT + 1]].ptrs ELSE <<>>)

RECURSIVE EntriesFrom(_, _, _)
EntriesFrom(f, as, n) ==
    IF n > Len(as) THEN <<>>
    ELSE (IF as[n] = 0 THEN <<>>
          ELSE SelectSeq(IF n = 1 /\ f.blk[as[n]].ents # <<>>
                         THEN Tail(f.blk[as[n]].ents)
                         ELSE f.blk[as[n]].ents,
                         LAMBDA e : e.inum # 0))
         \o EntriesFrom(f, as, n + 1)

\* the inode the first entry of directory i that matches name leads to, 0 if
\* none; the first entry of the first block is passed over
Lookup(f, i, name) ==
    LET es == EntriesFrom(f, DirAddrs(f, CopyOf(f, i)), 1)
        k == MinOr({j \in DOMAIN es : NameCmp(es[j].name, name)}, 0)
    IN  IF k = 0 THEN 0 ELSE es[k].inum

\* find_inode from the handle at: each name is looked up and the handle
\* replaced, the old one dropped; ip = 0 is None
RECURSIVE Walk(_, _, _)
Walk(f, at, names) ==
    IF names = <<>> THEN [f |-> f, ip |-> at]
    ELSE Bind(Lookup(LoadCopy(f, at), at, Head(names)), LAMBDA n :
             IF n = 0 THEN [f |-> DropInode(LoadCopy(f, at), at, TRUE), ip |-> 0]
             ELSE Walk(DropInode(GetInode(LoadCopy(f, at), n), at, TRUE), n,
                       Tail(names)))

FindInode(f, path) == Walk(GetInode(f, ROOTINO), ROOTINO, path)

\* nlink is a u16: a step below 0 or above the top wraps in a release build
\* and panics in a debug build
Wrap16(n) == n % (2 ^ 16)
Fits16(n) == n >= 0 /\ n < 2 ^ 16

\* inode_alloc: the first inode from ROOTINO whose type on the disk is Free
\* gets the new type, its other fields stay; 0 if there is none
FirstFree(f) == MinOr({i \in Inums : f.din[i].ftype = "Free"}, 0)

InodeAlloc(f, ftype) ==
    LET i == FirstFree(f)
    IN  GetInode([f EXCEPT !.din[i].ftype = ftype, !.gone = @ \ {i}], i)

\* create, after the parent dp was found and no entry of the wanted type was:
\* the new inode gets nlink 1 and size 0, a directory its "." and "..", the
\* parent the new entry and, for a directory, one more link
CreateNew(f, dp, name, ftype, wraps) ==
    Bind(FirstFree(f), LAMBDA i :
    IF i = 0 THEN [f |-> f, ip |-> 0, ok |-> FALSE]
    ELSE
    Bind(InodeAlloc(f, ftype), LAMBDA f1 :
    Bind(ModifyCopy(f1, i, [CopyOf(f1, i) EXCEPT !.nlink = 1, !.size = 0]), LAMBDA f2 :
    Bind(IF ftype = "Dir" THEN Dirlink(f2, i, Dot, i) ELSE [f |-> f2, ok |-> TRUE],
         LAMBDA l1 :
    Bind(IF ftype = "Dir" /\ l1.ok THEN Dirlink(l1.f, i, DotDot, dp) ELSE l1,
         LAMBDA l2 :
    Bind(IF l2.ok THEN Dirlink(l2.f, dp, name, i) ELSE l2, LAMBDA l3 :
        IF ~l3.ok \/ (ftype = "Dir" /\ ~Fits16(CopyOf(l3.f, dp).nlink + 1) /\ ~wraps)
        THEN [f |-> f, ip |-> 0, ok |-> FALSE]
        ELSE [f |-> DropInode(IF ftype = "Dir"
                              THEN ModifyCopy(l3.f, dp,
                                              [CopyOf(l3.f, dp) EXCEPT
                                                  !.nlink = Wrap16(@ + 1)])
                              ELSE l3.f,
                              dp, TRUE),
              ip |-> i, ok |-> TRUE]))))))

\* create: an entry of the name whose inode has the wanted type on the disk is
\* returned, any other is dropped and a new inode made
Create(f, path, ftype, wraps) ==
    Bind(FindInode(f, SubSeq(path, 1, Len(path) - 1)), LAMBDA p :
        IF p.ip = 0 THEN [f |-> f, ip |-> 0, ok |-> FALSE]
        ELSE Bind(Lookup(p.f, p.ip, path[Len(path)]), LAMBDA n :
                 IF n = 0
                 THEN CreateNew(LoadCopy(p.f, p.ip), p.ip, path[Len(path)], ftype, wraps)
                 ELSE Bind(GetInode(LoadCopy(p.f, p.ip), n), LAMBDA f1 :
                          IF f1.din[n].ftype = ftype
                          THEN [f |-> DropInode(f1, p.ip, TRUE), ip |-> n, ok |-> TRUE]
                          ELSE CreateNew(DropInode(f1, n, TRUE), p.ip,
                                         path[Len(path)], ftype, wraps))))

\* fileopen. A slot of the file table that holds the path is returned as it
\* is. Otherwise the inode is created or found inside a transaction and put
\* into the first slot nobody holds, which is slot 1 in the shell; the handle
\* that slot held is dropped there, outside the transaction.
FileOpen(f, path, omod, logged, wraps) ==
    IF f.slot.path = path THEN [f |-> f, ok |-> TRUE]
    ELSE Bind(IF omod = "OCreate" THEN Create(f, path, "File", wraps)
              ELSE Bind(FindInode(f, path), LAMBDA p :
                       [f |-> IF p.ip = 0 THEN p.f ELSE LoadCopy(p.f, p.ip),
                        ip |-> p.ip,
                        ok |-> p.ip # 0 /\
                               ~(omod # "ORdonly" /\ CopyOf(p.f, p.ip).ftype = "Dir")]),
              LAMBDA r :
                  IF ~r.ok THEN [f |-> f, ok |-> FALSE]
                  ELSE Bind([r.f EXCEPT !.slot = [path |-> path, ip |-> r.ip, off |-> 0]],
                            LAMBDA f1 :
                                [f |-> IF f.slot.ip = 0 THEN f1
                                       ELSE DropInode(f1, f.slot.ip, logged),
                                 ok |-> TRUE]))

\* filewrite of one block of data at the offset of the open file
FileWrite(f, data) ==
    Bind(BlockMap(f, f.slot.ip, f.slot.off), LAMBDA m :
        IF ~m.ok THEN [f |-> f, ok |-> FALSE]
        ELSE Bind([m.f EXCEPT !.blk[m.b] = data, !.slot.off = @ + 1], LAMBDA f1 :
                 IF f.slot.off + 1 > f1.mem[f.slot.ip].copy.size
                 THEN [f |-> ModifyCopy(f1, f.slot.ip,
                                        [f1.mem[f.slot.ip].copy EXCEPT
                                            !.size = f.slot.off + 1]),
                       ok |-> TRUE]
                 ELSE [f |-> f1, ok |-> TRUE]))

\* fileread to the end of the file
FileRead(f) ==
    LET size == CopyOf(f, f.slot.ip).size
    IN  [LoadCopy(f, f.slot.ip) EXCEPT
            !.slot.off = IF @ > size THEN @ ELSE size]

\* fileunlink: the entry is blanked and the link count of the parent
\* directory lowered inside the transaction; the handle of the parent is
\* dropped after log_end. gone keeps the files unlinked so far that inode_alloc
\* has not handed out again, rms counts the calls that went through. out is
\* the number of log_begin calls a return left without their log_end: the two
\* returns of Err come before log_end, a panic does not return.
FileUnlink(f, path, logged, wraps) ==
    Bind(FindInode(f, SubSeq(path, 1, Len(path) - 1)), LAMBDA p :
    IF p.ip = 0 THEN [f |-> f, ok |-> FALSE, out |-> 1]
    ELSE
    Bind(LoadCopy(p.f, p.ip), LAMBDA f0 :
    Bind(ReadEnt(f0, p.ip, UnlinkSlot(f0, p.ip, path[Len(path)])).inum, LAMBDA victim :
    Bind(Dirunlink(f0, p.ip, path[Len(path)]), LAMBDA u :
        IF ~u.ok THEN [f |-> f, ok |-> FALSE, out |-> 1]
        ELSE IF ~Fits16(CopyOf(u.f, p.ip).nlink - 1) /\ ~wraps
        THEN [f |-> f, ok |-> FALSE, out |-> 0]
        ELSE [f |-> DropInode([ModifyCopy(u.f, p.ip,
                                          [CopyOf(u.f, p.ip) EXCEPT
                                              !.nlink = Wrap16(@ - 1)])
                                  EXCEPT !.gone = IF u.f.din[victim].ftype = "File"
                                                   THEN @ \cup {victim} ELSE @,
                                         !.rms = @ + 1],
                              p.ip, logged),
              ok |-> TRUE, out |-> 0]))))

\* ---------------------------------------------------------------- bytes
\* rinode and winode byte by byte, on blocks of BSIZE bytes. A block is read
\* as entries, as addresses or as bytes by the code that uses it.
Chunk(off, n, tot) ==
    IF n - tot < BSIZE - (off % BSIZE) THEN n - tot ELSE BSIZE - (off % BSIZE)

\* winode's loop: the block of the offset is mapped, the chunk copied into it
\* and the block logged; ok = FALSE is the unwrap of None in block_map
RECURSIVE WinodeLoop(_, _, _, _, _, _)
WinodeLoop(f, i, src, off, n, tot) ==
    IF tot >= n THEN [f |-> f, off |-> off, tot |-> tot, ok |-> TRUE]
    ELSE Bind(BlockMap(f, i, off \div BSIZE), LAMBDA m :
             IF ~m.ok THEN [f |-> f, off |-> off, tot |-> tot, ok |-> FALSE]
             ELSE WinodeLoop(
                      [m.f EXCEPT !.blk[m.b].bytes =
                          [k \in 1 .. BSIZE |->
                              IF k - 1 >= (off % BSIZE)
                                 /\ k - 1 < (off % BSIZE) + Chunk(off, n, tot)
                              THEN src[tot + k - (off % BSIZE)]
                              ELSE @[k]]],
                      i, src, off + Chunk(off, n, tot), n, tot + Chunk(off, n, tot)))

\* winode without its last step: the size stays what it was
WinodeNoSize(f, i, src, off, n) ==
    Bind(WinodeLoop(f, i, src, off, n, 0), LAMBDA r :
        [f |-> r.f, ret |-> r.tot, ok |-> r.ok])

\* winode: the loop, then the size raised to the end offset if that is larger
Winode(f, i, src, off, n) ==
    Bind(WinodeLoop(f, i, src, off, n, 0), LAMBDA r :
        IF ~r.ok THEN [f |-> f, ret |-> 0, ok |-> FALSE]
        ELSE [f |-> IF r.off > CopyOf(r.f, i).size
                    THEN ModifyCopy(r.f, i, [CopyOf(r.f, i) EXCEPT !.size = r.off])
                    ELSE r.f,
              ret |-> r.tot, ok |-> TRUE])

\* rinode's loop: the block of the offset is mapped and the chunk copied out
RECURSIVE RinodeLoop(_, _, _, _, _)
RinodeLoop(f, i, off, n, out) ==
    IF Len(out) >= n THEN [f |-> f, out |-> out, ok |-> TRUE]
    ELSE Bind(BlockMap(f, i, off \div BSIZE), LAMBDA m :
             IF ~m.ok THEN [f |-> f, out |-> out, ok |-> FALSE]
             ELSE RinodeLoop(m.f, i, off + Chunk(off, n, Len(out)), n,
                             out \o [k \in 1 .. Chunk(off, n, Len(out)) |->
                                        m.f.blk[m.b].bytes[(off % BSIZE) + k]]))

\* rinode: nothing from beyond the size, and no more than up to the size
Rinode(f, i, off, n) ==
    IF off > CopyOf(f, i).size THEN [f |-> f, out |-> <<>>, ok |-> TRUE]
    ELSE RinodeLoop(LoadCopy(f, i), i, off,
                    IF off + n > CopyOf(f, i).size THEN CopyOf(f, i).size - off ELSE n,
                    <<>>)

\* ---------------------------------------------------------------- the shell
\* The commands of the shell of main.rs on three paths: /d is made by mkdir,
\* /e and /d/x by touch. Two things are left to the build: whether a link
\* count that leaves the u16 range wraps or panics, and whether a write to the
\* log outside a transaction is taken or panics. A panic ends the shell
\* whichever of the two causes it, so a command chooses them together (lax).
MaxRm == 2
MaxBlocks == 2
MaxSize == 4
NameD == <<"d">>
NameE == <<"e">>
NameX == <<"x">>
DirPaths == {<<NameD>>}
FilePaths == {<<NameE>>, <<NameD, NameX>>}

ShellFrame == UNCHANGED <<disk, cache, cmap, lh, pins, lock, poisoned,
                          pc, ci, ops, wrote, cur, want, committed, mode, stage,
                          crashes, remounts, crashed, cut, hnd, ev>>

\* the frame of the operations that end every transaction they begin
FsFrame == ShellFrame /\ UNCHANGED outstanding

InitFs ==
    /\ disk = MountedSt.disk
    /\ cache = MountedSt.cache
    /\ cmap = MountedSt.cmap
    /\ lh = NewHeader
    /\ outstanding = 0
    /\ pins = <<>>
    /\ lock = 0
    /\ poisoned = FALSE
    /\ pc = [t \in Threads |-> "idle"]
    /\ ci = 0
    /\ ops = [t \in Threads |-> 0]
    /\ wrote = [t \in Threads |-> {}]
    /\ cur = [t \in Threads |-> 0]
    /\ want = [b \in HomeBlocks |-> 0]
    /\ committed = [b \in HomeBlocks |-> 0]
    /\ mode = "fs"
    /\ stage = 0
    /\ crashes = 0
    /\ remounts = 0
    /\ crashed = NoCrash
    /\ cut = 0
    /\ hnd = [t \in Threads |-> NoHandle]
    /\ ev = NoEvent
    /\ fsys = MkfsFs

\* the state a command leaves. A panic inside the transaction ends the shell
\* with the transaction not committed, and nothing of it is looked at after. A
\* panic in a drop after log_end ends the shell with the disk as the committed
\* transaction and the synced bitmap left it.
After(r) == IF r.ok THEN r.f ELSE NoFs

\* the directories of the model have room for MaxSize entries
Roomy(f) == f.alive => \A i \in Inums : f.din[i].size <= MaxSize

\* Shell::touch: fileopen with OCreate, the open file dropped
ShTouch(path) ==
    /\ mode = "fs" /\ fsys.alive
    /\ \E lax \in BOOLEAN :
          fsys' = After(FileOpen(fsys, path, "OCreate", lax, lax))
    /\ Roomy(fsys')
    /\ FsFrame

\* Shell::mkdir: create of a directory in a transaction, the handle dropped
\* before log_end
ShMkdir(path) ==
    /\ mode = "fs" /\ fsys.alive
    /\ \E lax \in BOOLEAN : \E r \in {Create(fsys, path, "Dir", lax)} :
          fsys' = After(IF r.ok THEN [f |-> DropInode(r.f, r.ip, TRUE), ok |-> TRUE]
                        ELSE r)
    /\ Roomy(fsys')
    /\ FsFrame

\* Shell::write of a source of one block: fileopen, filewrite, fileclose. The
\* files of the model grow to MaxBlocks blocks.
\* fileclose returns at once, the table and the caller both holding the file.
ShWrite(path, data) ==
    /\ mode = "fs" /\ fsys.alive
    /\ \E lax \in BOOLEAN :
          \E o \in {FileOpen(fsys, path, "OWronly", lax, lax)} :
              /\ o.ok => (o.f.alive => o.f.slot.off < MaxBlocks)
              /\ fsys' = After(IF o.ok /\ o.f.alive THEN FileWrite(o.f, data) ELSE o)
    /\ FsFrame

\* Shell::cat: fileopen, fileread to the end, fileclose
ShCat(path) ==
    /\ mode = "fs" /\ fsys.alive
    /\ \E lax \in BOOLEAN :
          \E o \in {FileOpen(fsys, path, "ORdonly", lax, lax)} :
              fsys' = After(IF o.ok /\ o.f.alive
                            THEN [f |-> FileRead(o.f), ok |-> TRUE] ELSE o)
    /\ FsFrame

\* Shell::rm: fileunlink
ShRm(path) ==
    /\ mode = "fs" /\ fsys.alive
    /\ fsys.rms < MaxRm
    /\ \E lax \in BOOLEAN : \E r \in {FileUnlink(fsys, path, lax, lax)} :
          /\ fsys' = After(r)
          /\ outstanding' = outstanding + r.out
    /\ ShellFrame

NextFs ==
    \/ \E path \in FilePaths : ShTouch(path)
    \/ \E path \in DirPaths : ShMkdir(path)
    \/ \E path \in FilePaths : ShWrite(path, ZeroBlock)
    \/ \E path \in FilePaths \cup DirPaths : ShCat(path)
    \/ \E path \in FilePaths \cup DirPaths : ShRm(path)

SpecFs == InitFs /\ [][NextFs]_vars

\* ---------------------------------------------------------------- the inode table
\* InodePtrManager slot by slot: get_inode scans the slots under the lock of
\* the table while other threads release handles, which takes no lock. refs
\* is the number of handles outside the table, Arc::strong_count - 1. The
\* program has one device; get_inode compares the inum only.
NSlots == 3
NTblThreads == 2
MaxHeld == 2
Slots == 1 .. NSlots
TblThreads == 1 .. NTblThreads
TblInums == 1 .. 2

\* Inode::new and the Inode get_inode makes
NewInode(inum) == [inum |-> inum, refs |-> 0, loaded |-> FALSE]
IdleGet == [pc |-> "idle", idx |-> 0, empty |-> 0, want |-> 0]

NewTable ==
    [alive |-> TRUE,
     table |-> [s \in Slots |-> NewInode(0)],
     th |-> [t \in TblThreads |-> IdleGet],
     held |-> [t \in TblThreads |-> [s \in Slots |-> 0]],
     tlock |-> 0]

InitTable ==
    /\ disk = MountedSt.disk
    /\ cache = MountedSt.cache
    /\ cmap = MountedSt.cmap
    /\ lh = NewHeader
    /\ outstanding = 0
    /\ pins = <<>>
    /\ lock = 0
    /\ poisoned = FALSE
    /\ pc = [t \in Threads |-> "idle"]
    /\ ci = 0
    /\ ops = [t \in Threads |-> 0]
    /\ wrote = [t \in Threads |-> {}]
    /\ cur = [t \in Threads |-> 0]
    /\ want = [b \in HomeBlocks |-> 0]
    /\ committed = [b \in HomeBlocks |-> 0]
    /\ mode = "tbl"
    /\ stage = 0
    /\ crashes = 0
    /\ remounts = 0
    /\ crashed = NoCrash
    /\ cut = 0
    /\ hnd = [t \in Threads |-> NoHandle]
    /\ ev = NoEvent
    /\ fsys = NewTable

\* the handles thread t holds, counted over the slots up to n
RECURSIVE HeldUpTo(_, _, _)
HeldUpTo(f, t, n) == IF n = 0 THEN 0 ELSE f.held[t][n] + HeldUpTo(f, t, n - 1)

HeldBy(f, t) == HeldUpTo(f, t, NSlots)

\* a test that shares no slot
MatchesNever(e, inum) == FALSE

\* the test of get_inode for a slot to share
Matches(e, inum) == e.refs > 0 /\ e.inum = inum

\* get_inode takes the lock of the table
TableGetBegin(t, inum) ==
    /\ mode = "tbl" /\ fsys.alive
    /\ fsys.th[t].pc = "idle" /\ fsys.tlock = 0
    /\ HeldBy(fsys, t) < MaxHeld
    /\ fsys' = [fsys EXCEPT !.tlock = t,
                            !.th[t] = [pc |-> "scan", idx |-> 1, empty |-> 0,
                                       want |-> inum]]
    /\ FsFrame

\* one turn of the loop of get_inode, and what follows the loop
TableGetStep(t) ==
    /\ mode = "tbl" /\ fsys.alive
    /\ fsys.th[t].pc = "scan"
    /\ \E g \in {fsys.th[t]} :
          fsys' =
             IF g.idx <= NSlots
             THEN IF Matches(fsys.table[g.idx], g.want)
                  THEN [fsys EXCEPT !.table[g.idx].refs = @ + 1,
                                    !.held[t][g.idx] = @ + 1,
                                    !.th[t] = IdleGet, !.tlock = 0]
                  ELSE [fsys EXCEPT !.th[t].idx = @ + 1,
                                    !.th[t].empty =
                                        IF @ = 0 /\ fsys.table[g.idx].refs = 0
                                        THEN g.idx ELSE @]
             ELSE IF g.empty = 0 THEN NoFs
             ELSE [fsys EXCEPT !.table[g.empty] = [NewInode(g.want) EXCEPT !.refs = 1],
                               !.held[t][g.empty] = @ + 1,
                               !.th[t] = IdleGet, !.tlock = 0]
    /\ FsFrame

\* read_disk_inode through a handle loads the copy
TableLoad(t, s) ==
    /\ mode = "tbl" /\ fsys.alive
    /\ fsys.held[t][s] > 0 /\ ~fsys.table[s].loaded
    /\ fsys' = [fsys EXCEPT !.table[s].loaded = TRUE]
    /\ FsFrame

\* a handle is dropped: the count goes down, the copy stays
TableRelease(t, s) ==
    /\ mode = "tbl" /\ fsys.alive
    /\ fsys.th[t].pc = "idle" /\ fsys.held[t][s] > 0
    /\ fsys' = [fsys EXCEPT !.table[s].refs = @ - 1, !.held[t][s] = @ - 1]
    /\ FsFrame

NextTable ==
    \/ \E t \in TblThreads : \E inum \in TblInums : TableGetBegin(t, inum)
    \/ \E t \in TblThreads : TableGetStep(t)
    \/ \E t \in TblThreads : \E s \in Slots : TableLoad(t, s)
    \/ \E t \in TblThreads : \E s \in Slots : TableRelease(t, s)

SpecTable == InitTable /\ [][NextTable]_vars

\* the slots that hold inum and have handles outside the table
ReferencedAs(f, inum) == {s \in Slots : f.table[s].inum = inum /\ f.table[s].refs > 0}

\* C27: no two slots of the inode table hold the same inum with handles
\* outside the table on both; a get_inode of an inum that has such a slot
\* returns one more handle on that slot, its copy as it was, and any other
\* get_inode returns the only handle on a slot that had none, now holding the
\* inum with no copy loaded.
C27_TableUnique ==
    /\ [](mode = "tbl" /\ fsys.alive =>
             \A inum \in TblInums : Cardinality(ReferencedAs(fsys, inum)) <= 1)
    /\ [][\A t \in TblThreads :
             (mode = "tbl" /\ fsys.alive /\ fsys'.alive
              /\ fsys.th[t].pc = "scan" /\ fsys'.th[t].pc = "idle") =>
                 \E s \in Slots :
                    /\ fsys'.held[t][s] = fsys.held[t][s] + 1
                    /\ ReferencedAs(fsys', fsys.th[t].want) = {s}
                    /\ IF ReferencedAs(fsys, fsys.th[t].want) # {}
                       THEN /\ s \in ReferencedAs(fsys, fsys.th[t].want)
                            /\ fsys'.table[s] =
                                  [fsys.table[s] EXCEPT !.refs = @ + 1]
                       ELSE /\ fsys.table[s].refs = 0
                            /\ fsys'.table[s] =
                                  [NewInode(fsys.th[t].want) EXCEPT !.refs = 1]]_vars

\* two threads share one handle whose copy is loaded while another slot still
\* holds the same inum from before
C27_Witness ==
    /\ mode = "tbl" /\ fsys.alive
    /\ \E s \in Slots : \E s2 \in Slots \ {s} :
          /\ fsys.table[s].refs = 2 /\ fsys.table[s].loaded
          /\ fsys.held[1][s] = 1 /\ fsys.held[2][s] = 1
          /\ fsys.table[s2].inum = fsys.table[s].inum
          /\ fsys.table[s2].refs = 0

\* ---------------------------------------------------------------- LruCache
\* The generic cache of lru.rs with its nodes and their prev and next
\* pointers; pointer 0 is None, node ids are handed out in the order of the
\* Box::new calls. A node taken out for a replaced key is freed, the node of
\* an evicted key is only unlinked.
LruCap == 2
MaxLruOps == 4
LruKeys == 1 .. 3
LruVals == {10, 20}
NodeIds == 1 .. MaxLruOps
NoNode == [k |-> 0, v |-> 0, prev |-> 0, next |-> 0]

NewLru ==
    [alive |-> TRUE,
     nodes |-> [n \in NodeIds |-> NoNode],
     head |-> 0, tail |-> 0,
     map |-> [k \in LruKeys |-> 0],
     nextid |-> 1,
     last |-> [op |-> "none", k |-> 0, ret |-> 0]]

InitLru ==
    /\ disk = MountedSt.disk
    /\ cache = MountedSt.cache
    /\ cmap = MountedSt.cmap
    /\ lh = NewHeader
    /\ outstanding = 0
    /\ pins = <<>>
    /\ lock = 0
    /\ poisoned = FALSE
    /\ pc = [t \in Threads |-> "idle"]
    /\ ci = 0
    /\ ops = [t \in Threads |-> 0]
    /\ wrote = [t \in Threads |-> {}]
    /\ cur = [t \in Threads |-> 0]
    /\ want = [b \in HomeBlocks |-> 0]
    /\ committed = [b \in HomeBlocks |-> 0]
    /\ mode = "lru"
    /\ stage = 0
    /\ crashes = 0
    /\ remounts = 0
    /\ crashed = NoCrash
    /\ cut = 0
    /\ hnd = [t \in Threads |-> NoHandle]
    /\ ev = NoEvent
    /\ fsys = NewLru

MapLen(f) == Cardinality({k \in LruKeys : f.map[k] # 0})

Detach(f, n) ==
    Bind(IF f.nodes[n].prev # 0
         THEN [f EXCEPT !.nodes[f.nodes[n].prev].next = f.nodes[n].next]
         ELSE [f EXCEPT !.head = f.nodes[n].next],
         LAMBDA f1 :
    Bind(IF f1.nodes[n].next # 0
         THEN [f1 EXCEPT !.nodes[f1.nodes[n].next].prev = f1.nodes[n].prev]
         ELSE [f1 EXCEPT !.tail = f1.nodes[n].prev],
         LAMBDA f2 :
             [f2 EXCEPT !.nodes[n].prev = 0, !.nodes[n].next = 0]))

Attach(f, n) ==
    IF f.head # 0
    THEN [f EXCEPT !.nodes[f.head].prev = n,
                   !.nodes[n].next = f.head, !.nodes[n].prev = 0,
                   !.head = n]
    ELSE [f EXCEPT !.nodes[n].prev = 0, !.nodes[n].next = 0,
                   !.head = n, !.tail = n]

\* put: ok = FALSE is the unwrap of a tail that is None
LruPut(f, k, v) ==
    Bind([f EXCEPT !.nodes[f.nextid] = [k |-> k, v |-> v, prev |-> 0, next |-> 0],
                   !.nextid = @ + 1],
         LAMBDA f0 :
    Bind(IF f.map[k] # 0 THEN Detach([f0 EXCEPT !.map[k] = 0], f.map[k]) ELSE f0,
         LAMBDA f1 :
        IF f.map[k] = 0 /\ MapLen(f1) >= LruCap /\ f1.tail = 0
        THEN [f |-> f, ret |-> 0, ok |-> FALSE]
        ELSE
    Bind(IF f.map[k] = 0 /\ MapLen(f1) >= LruCap
         THEN [Detach(f1, f1.tail) EXCEPT !.map[f1.nodes[f1.tail].k] = 0]
         ELSE f1,
         LAMBDA f2 :
    Bind([Attach(f2, f.nextid) EXCEPT !.map[k] = f.nextid], LAMBDA f3 :
        [f |-> IF f.map[k] # 0 THEN [f3 EXCEPT !.nodes[f.map[k]] = NoNode] ELSE f3,
         ret |-> IF f.map[k] # 0 THEN f.nodes[f.map[k]].v ELSE 0,
         ok |-> TRUE]))))

\* get that leaves the list as it is
LruGetNoMove(f, k) ==
    [f |-> f, ret |-> IF f.map[k] # 0 THEN f.nodes[f.map[k]].v ELSE 0]

LruGet(f, k) ==
    IF f.map[k] # 0
    THEN [f |-> Attach(Detach(f, f.map[k]), f.map[k]), ret |-> f.nodes[f.map[k]].v]
    ELSE [f |-> f, ret |-> 0]

DoPut(k, v) ==
    /\ mode = "lru" /\ fsys.alive /\ fsys.nextid <= MaxLruOps
    /\ \E r \in {LruPut(fsys, k, v)} :
          fsys' = IF r.ok
                  THEN [r.f EXCEPT !.last = [op |-> "put", k |-> k, ret |-> r.ret]]
                  ELSE NoFs
    /\ FsFrame

DoGet(k) ==
    /\ mode = "lru" /\ fsys.alive
    /\ \E r \in {LruGet(fsys, k)} :
          fsys' = [r.f EXCEPT !.last = [op |-> "get", k |-> k, ret |-> r.ret]]
    /\ FsFrame

NextLru ==
    \/ \E k \in LruKeys : \E v \in LruVals : DoPut(k, v)
    \/ \E k \in LruKeys : DoGet(k)

SpecLru == InitLru /\ [][NextLru]_vars

\* the keys of the list from node n on, and from node n back
RECURSIVE KeysFrom(_, _)
KeysFrom(f, n) == IF n = 0 THEN <<>> ELSE <<f.nodes[n].k>> \o KeysFrom(f, f.nodes[n].next)

RECURSIVE KeysBack(_, _)
KeysBack(f, n) == IF n = 0 THEN <<>> ELSE KeysBack(f, f.nodes[n].prev) \o <<f.nodes[n].k>>

\* a sequence of keys without key k
Without(ks, k) == SelectSeq(ks, LAMBDA x : x # k)

\* the value the cache holds for k, 0 if none
ValueOf(f, k) == IF f.map[k] = 0 THEN 0 ELSE f.nodes[f.map[k]].v

\* C33: the list of the cache, from its head, is the order of last use of at
\* most LruCap keys and the map holds exactly these keys; a put of a key
\* present returns its old value and drops no key, a put of a new key into a
\* full cache drops the last key of the list and returns None, a get of a key
\* present returns its value and makes it the first, a get of any other key
\* returns None and changes nothing.
C33_LruCache ==
    /\ [](mode = "lru" /\ fsys.alive =>
             /\ Len(KeysFrom(fsys, fsys.head)) <= LruCap
             /\ KeysBack(fsys, fsys.tail) = KeysFrom(fsys, fsys.head)
             /\ \A k \in LruKeys :
                   /\ fsys.map[k] # 0 <=>
                         \E j \in DOMAIN KeysFrom(fsys, fsys.head) :
                            KeysFrom(fsys, fsys.head)[j] = k
                   /\ fsys.map[k] # 0 => fsys.nodes[fsys.map[k]].k = k
             /\ \A i, j \in DOMAIN KeysFrom(fsys, fsys.head) :
                   KeysFrom(fsys, fsys.head)[i] = KeysFrom(fsys, fsys.head)[j] => i = j)
    /\ [][(mode = "lru" /\ fsys.alive /\ fsys'.alive /\ fsys'.last.op = "put") =>
             /\ fsys'.last.ret = ValueOf(fsys, fsys'.last.k)
             /\ KeysFrom(fsys', fsys'.head) =
                   <<fsys'.last.k>> \o
                   (IF fsys.map[fsys'.last.k] # 0
                    THEN Without(KeysFrom(fsys, fsys.head), fsys'.last.k)
                    ELSE IF Len(KeysFrom(fsys, fsys.head)) >= LruCap
                    THEN SubSeq(KeysFrom(fsys, fsys.head), 1,
                                Len(KeysFrom(fsys, fsys.head)) - 1)
                    ELSE KeysFrom(fsys, fsys.head))
             /\ \A k \in LruKeys \ {fsys'.last.k} :
                   fsys'.map[k] # 0 => ValueOf(fsys', k) = ValueOf(fsys, k)]_vars
    /\ [][(mode = "lru" /\ fsys.alive /\ fsys'.alive /\ fsys'.last.op = "get") =>
             /\ fsys'.last.ret = ValueOf(fsys, fsys'.last.k)
             /\ KeysFrom(fsys', fsys'.head) =
                   (IF fsys.map[fsys'.last.k] # 0
                    THEN <<fsys'.last.k>> \o
                         Without(KeysFrom(fsys, fsys.head), fsys'.last.k)
                    ELSE KeysFrom(fsys, fsys.head))
             /\ \A k \in LruKeys : ValueOf(fsys', k) = ValueOf(fsys, k)]_vars

\* a get of a key that was put and then evicted, in a full cache
C33_Witness ==
    /\ mode = "lru" /\ fsys.alive
    /\ fsys.last.op = "get" /\ fsys.last.ret = 0
    /\ Len(KeysFrom(fsys, fsys.head)) = LruCap
    /\ \E n \in NodeIds : fsys.nodes[n].k = fsys.last.k /\ fsys.map[fsys.last.k] = 0

\* ---------------------------------------------------------------- locks
\* Which locks a thread holds at each point of the body of a logged operation
\* (begin_op, get_buffer_block, write guard, LogManager::write, end_op with
\* Log::commit) and of Drop for InodePtr. Thread t writes block t, as the
\* threads of test_mp write blocks of their own.
NLkThreads == 2
MaxLkOps == 2
LkThreads == 1 .. NLkThreads
LogMutex == [k |-> "log", b |-> 0]
TableMutex == [k |-> "table", b |-> 0]
DinodeMutex == [k |-> "dinode", b |-> 0]
BufLock(b) == [k |-> "rwlock", b |-> b]

NewLocks ==
    [alive |-> TRUE,
     pc |-> [t \in LkThreads |-> "idle"],
     held |-> [t \in LkThreads |-> {}],
     outstanding |-> 0,
     logged |-> {},
     done |-> [t \in LkThreads |-> 0]]

InitLocks ==
    /\ disk = MountedSt.disk
    /\ cache = MountedSt.cache
    /\ cmap = MountedSt.cmap
    /\ lh = NewHeader
    /\ outstanding = 0
    /\ pins = <<>>
    /\ lock = 0
    /\ poisoned = FALSE
    /\ pc = [t \in Threads |-> "idle"]
    /\ ci = 0
    /\ ops = [t \in Threads |-> 0]
    /\ wrote = [t \in Threads |-> {}]
    /\ cur = [t \in Threads |-> 0]
    /\ want = [b \in HomeBlocks |-> 0]
    /\ committed = [b \in HomeBlocks |-> 0]
    /\ mode = "lock"
    /\ stage = 0
    /\ crashes = 0
    /\ remounts = 0
    /\ crashed = NoCrash
    /\ cut = 0
    /\ hnd = [t \in Threads |-> NoHandle]
    /\ ev = NoEvent
    /\ fsys = NewLocks

LockFree(f, l) == \A u \in LkThreads : l \notin f.held[u]

\* LogManager::begin_op
LkBeginOp(t) ==
    /\ mode = "lock" /\ fsys.pc[t] = "idle" /\ fsys.done[t] < MaxLkOps
    /\ LockFree(fsys, LogMutex)
    /\ fsys' = [fsys EXCEPT !.pc[t] = "inop", !.outstanding = @ + 1]
    /\ FsFrame

\* get_buffer_block and buffer.write()
LkWriteGuard(t) ==
    /\ mode = "lock" /\ fsys.pc[t] = "inop"
    /\ LockFree(fsys, BufLock(t))
    /\ fsys' = [fsys EXCEPT !.pc[t] = "guarded", !.held[t] = @ \cup {BufLock(t)}]
    /\ FsFrame

\* LogManager::write(&buffer_guard): the log mutex is taken and released
\* with the guard of the buffer still alive
LkLogWrite(t) ==
    /\ mode = "lock" /\ fsys.pc[t] = "guarded"
    /\ LockFree(fsys, LogMutex)
    /\ fsys' = [fsys EXCEPT !.pc[t] = "logged", !.logged = @ \cup {t}]
    /\ FsFrame

\* the guard goes out of scope
LkDropGuard(t) ==
    /\ mode = "lock" /\ fsys.pc[t] = "logged"
    /\ fsys' = [fsys EXCEPT !.pc[t] = "end", !.held[t] = @ \ {BufLock(t)}]
    /\ FsFrame

\* LogManager::end_op up to its return or to the call of Log::commit
LkEndOp(t) ==
    /\ mode = "lock" /\ fsys.pc[t] = "end"
    /\ LockFree(fsys, LogMutex)
    /\ fsys' = IF fsys.outstanding = 1 /\ fsys.logged # {}
               THEN [fsys EXCEPT !.outstanding = 0, !.pc[t] = "commit",
                                 !.held[t] = @ \cup {LogMutex}]
               ELSE [fsys EXCEPT !.outstanding = @ - 1, !.pc[t] = "idle",
                                 !.done[t] = @ + 1]
    /\ FsFrame

\* Log::commit: the guards of one logged block taken and dropped; after the
\* last block the log mutex is released
LkCommit(t) ==
    /\ mode = "lock" /\ fsys.pc[t] = "commit"
    /\ \E b \in fsys.logged :
          /\ \A c \in fsys.logged : b <= c
          /\ LockFree(fsys, BufLock(b))
          /\ fsys' = IF fsys.logged = {b}
                     THEN [fsys EXCEPT !.logged = {}, !.pc[t] = "idle",
                                       !.held[t] = @ \ {LogMutex},
                                       !.done[t] = @ + 1]
                     ELSE [fsys EXCEPT !.logged = @ \ {b}]
    /\ FsFrame

\* Drop for InodePtr: the table mutex
LkDropTable(t) ==
    /\ mode = "lock" /\ fsys.pc[t] = "idle" /\ fsys.done[t] < MaxLkOps
    /\ LockFree(fsys, TableMutex)
    /\ fsys' = [fsys EXCEPT !.pc[t] = "table", !.held[t] = @ \cup {TableMutex}]
    /\ FsFrame

\* Drop for InodePtr: the dinode mutex, then either the end of drop or
\* drop(table_guard) before the truncate
LkDropDinode(t) ==
    /\ mode = "lock" /\ fsys.pc[t] = "table"
    /\ LockFree(fsys, DinodeMutex)
    /\ \E free \in BOOLEAN :
          fsys' = IF free
                  THEN [fsys EXCEPT !.pc[t] = "truncate", !.held[t] = {DinodeMutex}]
                  ELSE [fsys EXCEPT !.pc[t] = "idle", !.held[t] = {},
                                    !.done[t] = @ + 1]
    /\ FsFrame

\* Drop for InodePtr: Inode::truncate and modify_disk_inode take and drop
\* the guards of their blocks, then the dinode mutex is released
LkDropTruncate(t) ==
    /\ mode = "lock" /\ fsys.pc[t] = "truncate"
    /\ LockFree(fsys, BufLock(0))
    /\ fsys' = [fsys EXCEPT !.pc[t] = "idle", !.held[t] = {}, !.done[t] = @ + 1]
    /\ FsFrame

NextLocks ==
    \E t \in LkThreads :
        \/ LkBeginOp(t) \/ LkWriteGuard(t) \/ LkLogWrite(t) \/ LkDropGuard(t)
        \/ LkEndOp(t) \/ LkCommit(t)
        \/ LkDropTable(t) \/ LkDropDinode(t) \/ LkDropTruncate(t)

SpecLocks == InitLocks /\ [][NextLocks]_vars

\* the place of a lock in the order log mutex, inode_table mutex,
\* inode.diskinode mutex, buffer_shard mutex, buffer.rwlock
LockRank(k) ==
    CASE k = "log" -> 1 [] k = "table" -> 2 [] k = "dinode" -> 3
      [] k = "shard" -> 4 [] k = "rwlock" -> 5 [] OTHER -> 6

\* the lock the next step of a thread at this point takes first
Wants(p) ==
    CASE p = "inop" -> "shard" [] p = "guarded" -> "log" [] p = "end" -> "log"
      [] p = "commit" -> "shard" [] p = "table" -> "dinode"
      [] p = "truncate" -> "shard" [] OTHER -> "none"

\* ---------------------------------------------------------------- the bitmap block
\* One bitmap block in the buffer cache (buf, dirty) and on the device (dev)
\* through the transactions of one thread: block_alloc marks a bit and
\* logs the block, block_free clears a bit with sync_write, end_op commits
\* the logged block. pre is the device's bitmap at begin_op.
MaxBmOps == 3
BmBits == 0 .. (BPB - 1)

NewBitmap ==
    [alive |-> TRUE, dev |-> {0}, buf |-> {0}, dirty |-> FALSE,
     logged |-> FALSE, intx |-> FALSE, pre |-> {0}, nops |-> 0]

InitBitmap ==
    /\ disk = MountedSt.disk
    /\ cache = MountedSt.cache
    /\ cmap = MountedSt.cmap
    /\ lh = NewHeader
    /\ outstanding = 0
    /\ pins = <<>>
    /\ lock = 0
    /\ poisoned = FALSE
    /\ pc = [t \in Threads |-> "idle"]
    /\ ci = 0
    /\ ops = [t \in Threads |-> 0]
    /\ wrote = [t \in Threads |-> {}]
    /\ cur = [t \in Threads |-> 0]
    /\ want = [b \in HomeBlocks |-> 0]
    /\ committed = [b \in HomeBlocks |-> 0]
    /\ mode = "bitmap"
    /\ stage = 0
    /\ crashes = 0
    /\ remounts = 0
    /\ crashed = NoCrash
    /\ cut = 0
    /\ hnd = [t \in Threads |-> NoHandle]
    /\ ev = NoEvent
    /\ fsys = NewBitmap

\* begin_op
BmBegin ==
    /\ mode = "bitmap" /\ ~fsys.intx /\ fsys.nops < MaxBmOps
    /\ fsys' = [fsys EXCEPT !.intx = TRUE, !.pre = fsys.dev, !.nops = @ + 1]
    /\ FsFrame

\* block_alloc: the first zero bit of the buffer is set and the block logged
BmAlloc ==
    /\ mode = "bitmap" /\ fsys.intx
    /\ \E bi \in BmBits \ fsys.buf :
          /\ \A x \in BmBits \ fsys.buf : bi <= x
          /\ fsys' = [fsys EXCEPT !.buf = @ \cup {bi}, !.dirty = TRUE,
                                  !.logged = TRUE]
    /\ FsFrame

\* block_free(b): sync_write clears the bit in the buffer (as_mut sets dirty)
\* and sync writes the whole buffer to the device
BmFree(b) ==
    /\ mode = "bitmap" /\ fsys.intx
    /\ fsys' = [fsys EXCEPT !.buf = @ \ {b}, !.dev = fsys.buf \ {b},
                            !.dirty = FALSE]
    /\ FsFrame

\* end_op: Log::commit installs the block if it is in the log
BmEnd ==
    /\ mode = "bitmap" /\ fsys.intx
    /\ fsys' = IF fsys.logged
               THEN [fsys EXCEPT !.intx = FALSE, !.logged = FALSE,
                                 !.dev = fsys.buf, !.dirty = FALSE]
               ELSE [fsys EXCEPT !.intx = FALSE]
    /\ FsFrame

NextBitmap == BmBegin \/ BmAlloc \/ (\E b \in BmBits : BmFree(b)) \/ BmEnd

SpecBitmap == InitBitmap /\ [][NextBitmap]_vars

\* ---------------------------------------------------------------- concurrent allocation
\* Threads that call block_alloc, block_free and inode_alloc on one bitmap
\* block and one inode block. A call takes the write guard of the block,
\* copies what it tests out of the buffer, and changes the buffer through the
\* same guard, which it gives to log_write. got and igot are the blocks and
\* inodes each thread was handed and has not freed.
NAllocThreads == 2
MaxAllocs == 2
AllocThreads == 1 .. NAllocThreads

NewAlloc ==
    [alive |-> TRUE,
     bits |-> {0},
     ftype |-> [i \in Inums |-> IF i = ROOTINO THEN "Dir" ELSE "Free"],
     guard |-> [l \in {"bitmap", "inode"} |-> 0],
     pc |-> [t \in AllocThreads |-> "idle"],
     buf |-> [t \in AllocThreads |-> {}],
     seen |-> [t \in AllocThreads |-> "Free"],
     at |-> [t \in AllocThreads |-> ROOTINO],
     got |-> [t \in AllocThreads |-> <<>>],
     igot |-> [t \in AllocThreads |-> <<>>],
     calls |-> [t \in AllocThreads |-> 0]]

InitAlloc ==
    /\ disk = MountedSt.disk
    /\ cache = MountedSt.cache
    /\ cmap = MountedSt.cmap
    /\ lh = NewHeader
    /\ outstanding = 0
    /\ pins = <<>>
    /\ lock = 0
    /\ poisoned = FALSE
    /\ pc = [t \in Threads |-> "idle"]
    /\ ci = 0
    /\ ops = [t \in Threads |-> 0]
    /\ wrote = [t \in Threads |-> {}]
    /\ cur = [t \in Threads |-> 0]
    /\ want = [b \in HomeBlocks |-> 0]
    /\ committed = [b \in HomeBlocks |-> 0]
    /\ mode = "alloc"
    /\ stage = 0
    /\ crashes = 0
    /\ remounts = 0
    /\ crashed = NoCrash
    /\ cut = 0
    /\ hnd = [t \in Threads |-> NoHandle]
    /\ ev = NoEvent
    /\ fsys = NewAlloc

\* a faulty variant: write() does not wait for the holder
GuardFreeM(f, l) == TRUE

\* RwLock::write returns when no other guard of the block is alive
GuardFree(f, l) == f.guard[l] = 0

\* block_alloc: blk.write() and the copy of the bitmap block
BaLock(t) ==
    /\ mode = "alloc" /\ fsys.pc[t] = "idle" /\ fsys.calls[t] < MaxAllocs
    /\ GuardFree(fsys, "bitmap")
    /\ fsys' = [fsys EXCEPT !.pc[t] = "bits", !.guard["bitmap"] = t,
                            !.buf[t] = fsys.bits, !.calls[t] = @ + 1]
    /\ FsFrame

\* block_alloc: the first zero bit of the copy is set and its byte written
\* to the buffer by log_write, which ends the guard; None if the copy has no
\* zero bit
BaMark(t) ==
    /\ mode = "alloc" /\ fsys.pc[t] = "bits"
    /\ \E bi \in {MinOr(BmBits \ fsys.buf[t], BPB)} :
          fsys' = IF bi = BPB
                  THEN [fsys EXCEPT !.pc[t] = "idle", !.guard["bitmap"] = 0]
                  ELSE [fsys EXCEPT !.pc[t] = "idle", !.guard["bitmap"] = 0,
                                    !.bits = fsys.buf[t] \cup {bi},
                                    !.got[t] = Append(@, bi)]
    /\ FsFrame

\* block_free of a block the thread was handed
BaFree(t) ==
    /\ mode = "alloc" /\ fsys.pc[t] = "idle" /\ fsys.got[t] # <<>>
    /\ GuardFree(fsys, "bitmap")
    /\ fsys' = [fsys EXCEPT !.bits = @ \ {Head(fsys.got[t])},
                            !.got[t] = Tail(@)]
    /\ FsFrame

\* inode_alloc: blk.write() and the copy of the inode the loop is at
IaLock(t) ==
    /\ mode = "alloc" /\ fsys.pc[t] \in {"idle", "next"}
    /\ fsys.pc[t] = "idle" => fsys.calls[t] < MaxAllocs
    /\ GuardFree(fsys, "inode")
    /\ fsys' = [fsys EXCEPT !.pc[t] = "inode", !.guard["inode"] = t,
                            !.seen[t] = fsys.ftype[fsys.at[t]],
                            !.calls[t] = IF fsys.pc[t] = "idle" THEN @ + 1 ELSE @]
    /\ FsFrame

\* inode_alloc: a Free copy gets the type and is written by log_write, which
\* ends the guard; otherwise the guard ends with the iteration, and after the
\* last inode the call panics
IaMark(t) ==
    /\ mode = "alloc" /\ fsys.pc[t] = "inode"
    /\ fsys' = IF fsys.seen[t] = "Free"
               THEN [fsys EXCEPT !.pc[t] = "idle", !.guard["inode"] = 0,
                                 !.ftype[fsys.at[t]] = "File",
                                 !.igot[t] = Append(@, fsys.at[t]),
                                 !.at[t] = ROOTINO]
               ELSE IF fsys.at[t] + 1 > NINODES
               THEN [fsys EXCEPT !.pc[t] = "panic", !.guard["inode"] = 0]
               ELSE [fsys EXCEPT !.pc[t] = "next", !.guard["inode"] = 0,
                                 !.at[t] = @ + 1]
    /\ FsFrame

NextAlloc ==
    \E t \in AllocThreads :
        BaLock(t) \/ BaMark(t) \/ BaFree(t) \/ IaLock(t) \/ IaMark(t)

SpecAlloc == InitAlloc /\ [][NextAlloc]_vars

\* the places of a sequence hold different values
NoRepeat(q) == \A j, k \in DOMAIN q : q[j] = q[k] => j = k

\* ---------------------------------------------------------------- names
\* The shell on names of which one begins another, a name made both as a file
\* and as a directory, and a file that holds the bytes of a directory entry.
NameA == <<"a">>
NameAB == <<"a", "b">>
NameB == <<"b">>

\* a block of a source file with the bytes of an entry "b" of inode ROOTINO
\* in its second place
EntBlock == [ZeroBlock EXCEPT !.ents = <<NoEntry, [name |-> NameB, inum |-> ROOTINO]>>]

TouchPaths == {<<NameA>>, <<NameAB>>}
MkdirPaths == {<<NameA>>}
WritePaths == {<<NameA>>}
CatPaths == {<<NameA, NameB>>}
RmPaths == {<<NameA>>, <<NameAB>>}

NextDir ==
    \/ \E path \in TouchPaths : ShTouch(path)
    \/ \E path \in MkdirPaths : ShMkdir(path)
    \/ \E path \in WritePaths : \E data \in {ZeroBlock, EntBlock} : ShWrite(path, data)
    \/ \E path \in CatPaths : ShCat(path)
    \/ \E path \in RmPaths : ShRm(path)

SpecDir == InitFs /\ [][NextDir]_vars

\* the inodes directory dp lists, within its size and after ".", under a name
\* equal to name
Named(f, dp, name) ==
    IF f.din[dp].addrs[1] = 0 THEN {}
    ELSE {EntAt(f.blk[f.din[dp].addrs[1]], k).inum :
             k \in {j \in 1 .. (f.din[dp].size - 1) :
                       /\ EntAt(f.blk[f.din[dp].addrs[1]], j).inum # 0
                       /\ EntAt(f.blk[f.din[dp].addrs[1]], j).name = name}}

\* what create is asked for: a path and a type
CreateArgs == (TouchPaths \X {"File"}) \cup (MkdirPaths \X {"Dir"})

\* C23: when the root lists the target name with an inode of the requested
\* type, create returns that inode and leaves the inodes, blocks and bitmap on
\* the disk as they were, and a second create returns the same inode and the
\* same disk.
C23_CreateIdempotent ==
    fsys.alive =>
        \A a \in CreateArgs :
            (\E n \in Named(fsys, ROOTINO, a[1][1]) : fsys.din[n].ftype = a[2]) =>
                /\ Create(fsys, a[1], a[2], FALSE).ok
                /\ Create(fsys, a[1], a[2], FALSE).ip \in Named(fsys, ROOTINO, a[1][1])
                /\ fsys.din[Create(fsys, a[1], a[2], FALSE).ip].ftype = a[2]
                /\ Create(fsys, a[1], a[2], FALSE).f.din = fsys.din
                /\ Create(fsys, a[1], a[2], FALSE).f.blk = fsys.blk
                /\ Create(fsys, a[1], a[2], FALSE).f.bits = fsys.bits
                /\ Create(Create(fsys, a[1], a[2], FALSE).f, a[1], a[2], FALSE).ip =
                      Create(fsys, a[1], a[2], FALSE).ip
                /\ Create(Create(fsys, a[1], a[2], FALSE).f, a[1], a[2], FALSE).f.blk =
                      fsys.blk

\* ---------------------------------------------------------------- a file's bytes
\* One file, made by create as the tests make it, written and read at byte
\* offsets within MAXFILE blocks. Block 0 of the device is in the image too.
MaxRwOps == 2
MaxN == 3
NoWrite == [op |-> "none"]

RwFs ==
    Bind(Create(MkfsFs, <<NameE>>, "File", TRUE), LAMBDA c :
        [alive |-> TRUE, bits |-> c.f.bits, din |-> c.f.din, mem |-> c.f.mem,
         blk |-> [b \in 0 .. NDATA |-> IF b = 0 THEN ZeroBlock ELSE c.f.blk[b]],
         ino |-> c.ip, nops |-> 0, w |-> NoWrite])

InitRW ==
    /\ disk = MountedSt.disk
    /\ cache = MountedSt.cache
    /\ cmap = MountedSt.cmap
    /\ lh = NewHeader
    /\ outstanding = 0
    /\ pins = <<>>
    /\ lock = 0
    /\ poisoned = FALSE
    /\ pc = [t \in Threads |-> "idle"]
    /\ ci = 0
    /\ ops = [t \in Threads |-> 0]
    /\ wrote = [t \in Threads |-> {}]
    /\ cur = [t \in Threads |-> 0]
    /\ want = [b \in HomeBlocks |-> 0]
    /\ committed = [b \in HomeBlocks |-> 0]
    /\ mode = "rw"
    /\ stage = 0
    /\ crashes = 0
    /\ remounts = 0
    /\ crashed = NoCrash
    /\ cut = 0
    /\ hnd = [t \in Threads |-> NoHandle]
    /\ ev = NoEvent
    /\ fsys = RwFs

\* the bytes a test hands to winode
Srcs(n) == {[k \in 1 .. n |-> k], [k \in 1 .. n |-> MaxN + k]}

\* what rinode returns of the whole file
Readable(f) == Rinode(f, f.ino, 0, CopyOf(f, f.ino).size).out

RwWrite(off, n, src) ==
    /\ mode = "rw" /\ fsys.alive /\ fsys.nops < MaxRwOps
    /\ off + n <= MAXFILE * BSIZE
    /\ \E r \in {Winode(fsys, fsys.ino, src, off, n)} :
          fsys' = IF r.ok
                  THEN [r.f EXCEPT !.nops = @ + 1,
                                   !.w = [op |-> "write", off |-> off, n |-> n,
                                          src |-> src, ret |-> r.ret,
                                          oldsize |-> CopyOf(fsys, fsys.ino).size,
                                          before |-> Readable(fsys)]]
                  ELSE NoFs
    /\ FsFrame

RwRead(off, n) ==
    /\ mode = "rw" /\ fsys.alive /\ fsys.nops < MaxRwOps
    /\ off + n <= MAXFILE * BSIZE
    /\ \E r \in {Rinode(fsys, fsys.ino, off, n)} :
          fsys' = IF r.ok
                  THEN [r.f EXCEPT !.nops = @ + 1,
                                   !.w = [op |-> "read", off |-> off, n |-> n,
                                          out |-> r.out]]
                  ELSE NoFs
    /\ FsFrame

NextRW ==
    \/ \E off \in 0 .. MAXFILE * BSIZE : \E n \in 0 .. MaxN : \E src \in Srcs(n) :
          RwWrite(off, n, src)
    \/ \E off \in 0 .. MAXFILE * BSIZE : \E n \in 0 .. MaxN : RwRead(off, n)

SpecRW == InitRW /\ [][NextRW]_vars

\* C22: winode of n bytes at off, the range and the old size within the
\* NDIRECT + NINDIRECT blocks a file can have, returns n, a following rinode of
\* the range returns the bytes written, the size is the larger of the old size
\* and off + n, and the bytes readable before that lie outside the range are
\* what they were.
C22_WriteReadRoundTrip ==
    (/\ mode = "rw" /\ fsys.alive /\ fsys.w.op = "write"
     /\ fsys.w.off + fsys.w.n <= (NDIRECT + NINDIRECT) * BSIZE
     /\ fsys.w.oldsize <= (NDIRECT + NINDIRECT) * BSIZE) =>
        /\ fsys.w.ret = fsys.w.n
        /\ Rinode(fsys, fsys.ino, fsys.w.off, fsys.w.n).out = fsys.w.src
        /\ CopyOf(fsys, fsys.ino).size =
              (IF fsys.w.oldsize > fsys.w.off + fsys.w.n
               THEN fsys.w.oldsize ELSE fsys.w.off + fsys.w.n)
        /\ \A p \in 1 .. fsys.w.oldsize :
              (p - 1 < fsys.w.off \/ p - 1 >= fsys.w.off + fsys.w.n) =>
                  Readable(fsys)[p] = fsys.w.before[p]

\* a write that begins in the direct block and ends in a block of the
\* indirect block, over a file that had bytes written behind the range
C22_Witness ==
    /\ mode = "rw" /\ fsys.alive /\ fsys.w.op = "write"
    /\ fsys.w.off < NDIRECT * BSIZE
    /\ fsys.w.off + fsys.w.n > NDIRECT * BSIZE
    /\ fsys.w.oldsize > fsys.w.off + fsys.w.n
    /\ fsys.w.oldsize <= (NDIRECT + NINDIRECT) * BSIZE
    /\ fsys.w.before[fsys.w.oldsize] # 0


\* the blocks the inodes allocated on the disk lead to: their direct blocks,
\* their indirect block and its children
RefsOf(f, i) ==
    {f.din[i].addrs[k] : k \in 1 .. (NDIRECT + 1)} \cup
    (IF f.din[i].addrs[NDIRECT + 1] # 0
     THEN {f.blk[f.din[i].addrs[NDIRECT + 1]].ptrs[k] : k \in 1 .. NINDIRECT}
     ELSE {})

Allocated(f) == {i \in Inums : f.din[i].ftype # "Free"}

Reachable(f) == UNION {RefsOf(f, i) : i \in Allocated(f)} \ {0}

\* C19: after every committed operation the bits set in the bitmap are the
\* blocks that the on-disk addresses of the allocated inodes lead to, directly
\* or through their indirect block, and no block belongs to two inodes.
C19_BitmapCorrect ==
    fsys # NoFs =>
        /\ fsys.bits = Reachable(fsys)
        /\ \A i, j \in Allocated(fsys) :
              i # j => (RefsOf(fsys, i) \cap RefsOf(fsys, j)) \ {0} = {}
        /\ \A i \in Allocated(fsys) : \A k, l \in 1 .. (NDIRECT + 1) :
              (k # l /\ fsys.din[i].addrs[k] # 0)
                  => fsys.din[i].addrs[k] # fsys.din[i].addrs[l]

\* C20: an inode that rm has unlinked and that no handle holds any more is
\* Free on the disk, and the bits of the blocks its addresses lead to are clear.
C20_InodeFreeing ==
    fsys.alive =>
        \A i \in fsys.gone :
            fsys.mem[i].refs = 0 =>
                /\ fsys.din[i].ftype = "Free"
                /\ (RefsOf(fsys, i) \ {0}) \cap fsys.bits = {}

\* the places of directory i, other than its own first two, that name inode n
ListedIn(f, i, n) ==
    f.din[i].ftype = "Dir" /\ f.din[i].addrs[1] # 0 /\
    \E k \in 2 .. (f.din[i].size - 1) : EntAt(f.blk[f.din[i].addrs[1]], k).inum = n

\* C21: every inode that is a directory on the disk has "." naming itself in
\* its first place and ".." naming its parent in its second, the root being
\* its own parent, also when the inode number was freed and handed out again.
C21_DotAndDotDot ==
    fsys.alive =>
        \A i \in Inums :
            fsys.din[i].ftype = "Dir" =>
                /\ fsys.din[i].addrs[1] # 0
                /\ EntAt(fsys.blk[fsys.din[i].addrs[1]], 0) = [name |-> Dot, inum |-> i]
                /\ EntAt(fsys.blk[fsys.din[i].addrs[1]], 1).name = DotDot
                /\ i = ROOTINO => EntAt(fsys.blk[fsys.din[i].addrs[1]], 1).inum = ROOTINO
                /\ \A p \in Inums \ {i} :
                      ListedIn(fsys, p, i) =>
                          EntAt(fsys.blk[fsys.din[i].addrs[1]], 1).inum = p

\* C24: when the root lists the target name only with inodes of another type
\* than the one requested, create returns no handle and leaves the inodes,
\* blocks and bitmap on the disk as they were.
C24_AlreadyExists ==
    fsys.alive =>
        \A a \in CreateArgs :
            (/\ Named(fsys, ROOTINO, a[1][1]) # {}
             /\ \A n \in Named(fsys, ROOTINO, a[1][1]) :
                   fsys.din[n].ftype \notin {a[2], "Free"}) =>
                /\ Create(fsys, a[1], a[2], FALSE).ip = 0
                /\ Create(fsys, a[1], a[2], FALSE).f.din = fsys.din
                /\ Create(fsys, a[1], a[2], FALSE).f.blk = fsys.blk
                /\ Create(fsys, a[1], a[2], FALSE).f.bits = fsys.bits

\* C25: between the operations of the shell, whether they succeeded or
\* returned an error, every log_begin has had its log_end: no transaction is
\* outstanding.
C25_BeginEndBalanced == mode = "fs" => outstanding = 0

\* C26: the bit block_alloc finds clear is that of a block of the image, and
\* when every block of the image is in use it finds none.
C26_BlockAllocValid ==
    (mode = "rw" /\ fsys.alive) =>
        /\ BlockAlloc(fsys).pick # 0 => BlockAlloc(fsys).pick < SBSize
        /\ DataBlocks \subseteq fsys.bits => BlockAlloc(fsys).pick = 0

\* the inodes a path leads to from the inodes S when every step is taken from
\* a directory through an entry of that name
RECURSIVE ResolveSet(_, _, _)
ResolveSet(f, S, names) ==
    IF names = <<>> THEN S
    ELSE ResolveSet(f,
                    UNION {Named(f, i, Head(names)) :
                              i \in {j \in S : f.din[j].ftype = "Dir"}},
                    Tail(names))

\* C28: find_inode returns an inode for a path only if every name of the path
\* is an entry of a directory reached so far; the data of a regular file is
\* never read as directory entries.
C28_ResolveThroughDirs ==
    fsys.alive =>
        \A path \in CatPaths :
            FindInode(fsys, path).ip # 0 =>
                FindInode(fsys, path).ip \in ResolveSet(fsys, {ROOTINO}, path)

\* C29: the lookup of a name in the root returns an inode only of an entry
\* whose name equals the name looked up, and none when no entry's name equals
\* it, as when an entry "ab" is there and "a" is looked up.
C29_WholeNames ==
    fsys.alive =>
        \A path \in TouchPaths :
            /\ Lookup(fsys, ROOTINO, path[1]) # 0 =>
                  Lookup(fsys, ROOTINO, path[1]) \in Named(fsys, ROOTINO, path[1])
            /\ Named(fsys, ROOTINO, path[1]) = {} => Lookup(fsys, ROOTINO, path[1]) = 0

\* C30: no directory on the disk has two entries with inum # 0 and the same
\* name within its size.
C30_NoDuplicateNames ==
    fsys.alive =>
        \A i \in Inums :
            (fsys.din[i].ftype = "Dir" /\ fsys.din[i].addrs[1] # 0) =>
                \A j \in 0 .. (fsys.din[i].size - 1) :
                    \A k \in (j + 1) .. (fsys.din[i].size - 1) :
                        (/\ EntAt(fsys.blk[fsys.din[i].addrs[1]], j).inum # 0
                         /\ EntAt(fsys.blk[fsys.din[i].addrs[1]], k).inum # 0) =>
                            EntAt(fsys.blk[fsys.din[i].addrs[1]], j).name #
                               EntAt(fsys.blk[fsys.din[i].addrs[1]], k).name

\* C31: reads and writes stop at NDIRECT + NINDIRECT blocks: block 0 of the
\* device is never written, the size of the file never passes that limit, and
\* winode counts no byte beyond it in what it returns.
C31_ClippedAtMaxfile ==
    (mode = "rw" /\ fsys.alive) =>
        /\ fsys.blk[0] = ZeroBlock
        /\ CopyOf(fsys, fsys.ino).size <= (NDIRECT + NINDIRECT) * BSIZE
        /\ fsys.w.op = "write" =>
              fsys.w.off + fsys.w.ret <=
                 (IF fsys.w.off > (NDIRECT + NINDIRECT) * BSIZE
                  THEN fsys.w.off ELSE (NDIRECT + NINDIRECT) * BSIZE)

\* C32: a fileunlink that succeeds on a name the root lists once leaves the
\* root without an entry of that name and the inode the entry named with one
\* link less, and the link count of the root as it was when that inode is a
\* regular file.
C32_UnlinkLowersChild ==
    fsys.alive =>
        \A path \in RmPaths : \A v \in Inums :
            (Named(fsys, ROOTINO, path[1]) = {v}
             /\ FileUnlink(fsys, path, FALSE, FALSE).ok) =>
                /\ Named(FileUnlink(fsys, path, FALSE, FALSE).f, ROOTINO, path[1]) = {}
                /\ FileUnlink(fsys, path, FALSE, FALSE).f.din[v].nlink =
                      fsys.din[v].nlink - 1
                /\ fsys.din[v].ftype = "File" =>
                      FileUnlink(fsys, path, FALSE, FALSE).f.din[ROOTINO].nlink =
                         fsys.din[ROOTINO].nlink

\* the blocks of the device a step changes
Written == {b \in DOMAIN disk : disk'[b] # disk[b]}

\* C34: the device changes only inside a commit of n > 0 blocks; a log body
\* block is written, with the in-memory image of its dst, only while the
\* header on the device has n = 0; the header with n > 0 goes to the device
\* only when all n log body blocks hold the images of their dst; a home block
\* is written, from its log body block, only while the header {n, dst} is on
\* the device; the header is cleared only when all n home blocks hold their
\* log body blocks; an end_op that does not commit writes nothing.
C34_CommitWriteOrder ==
    [][mode = "run" =>
         /\ Written # {} =>
               /\ \E t \in Threads : pc[t] = "commit"
               /\ lh.n > 0
               /\ Cardinality(Written) = 1
         /\ \A b \in Written \cap LogBlocks :
               /\ disk[LOGSTART].n = 0
               /\ b = LOGSTART + 1 + ci
               /\ disk'[b] = CacheRead(lh.block[ci + 1])
         /\ (disk[LOGSTART].n = 0 /\ disk'[LOGSTART].n > 0) =>
               /\ disk'[LOGSTART] = lh
               /\ \A i \in 0 .. (lh.n - 1) :
                     disk[LOGSTART + 1 + i] = CacheRead(lh.block[i + 1])
         /\ \A b \in Written \cap HomeBlocks :
               /\ disk[LOGSTART] = lh
               /\ b = lh.block[ci + 1]
               /\ disk'[b] = disk[LOGSTART + 1 + ci]
               /\ \A i \in 0 .. (ci - 1) :
                     disk[lh.block[i + 1]] = disk[LOGSTART + 1 + i]
         /\ (disk[LOGSTART].n > 0 /\ disk'[LOGSTART].n = 0) =>
               \A i \in 0 .. (lh.n - 1) :
                   disk[lh.block[i + 1]] = disk[LOGSTART + 1 + i]
         /\ \A t \in Threads :
               (pc[t] = "inop" /\ pc'[t] = "idle") => /\ disk' = disk
                                                      /\ lh.n = 0 \/ outstanding > 1]_vars

\* a commit of two blocks or more has written its log body, its header and
\* its home blocks and is about to clear the header
C34_Witness ==
    /\ mode = "run"
    /\ \E t \in Threads : pc[t] = "commit"
    /\ lh.n >= 2
    /\ disk[LOGSTART] = lh
    /\ \A i \in 0 .. (lh.n - 1) :
          /\ disk[lh.block[i + 1]] = disk[LOGSTART + 1 + i]
          /\ disk[lh.block[i + 1]] = want[lh.block[i + 1]]
          /\ committed[lh.block[i + 1]] # want[lh.block[i + 1]]

\* C35: no thread that holds a lock is about to take a lock that comes
\* earlier in the order log mutex, inode_table mutex, inode.diskinode mutex,
\* buffer_shard mutex, buffer.rwlock; LogManager::write is not entered by a
\* thread that holds a buffer rwlock, and no commit runs while a thread that
\* holds the rwlock of a logged block is about to take the log mutex.
C35_LockOrder ==
    (mode = "lock" /\ fsys.alive) =>
        /\ \A t \in LkThreads : \A l \in fsys.held[t] :
              LockRank(l.k) < LockRank(Wants(fsys.pc[t]))
        /\ \A t, u \in LkThreads :
              fsys.pc[t] = "commit" =>
                  ~(fsys.pc[u] = "guarded" /\ fsys.held[u] \cap
                      {BufLock(b) : b \in fsys.logged} # {})

\* C36: block_free writes nothing to the device: inside a transaction the
\* bitmap on the device is the one of begin_op, whatever bits the
\* transaction has set and cleared, and changes only in the commit at end_op.
C36_FreeThroughLog ==
    /\ [](mode = "bitmap" /\ fsys.intx => fsys.dev = fsys.pre)
    /\ [][(mode = "bitmap" /\ fsys'.dev # fsys.dev) =>
             (fsys.intx /\ ~fsys'.intx /\ fsys.logged)]_vars

\* C37: an inode that the last-reference free has truncated and freed has all
\* its NDIRECT+1 addresses zero on the disk and in its cached copy, so no
\* Free inode on the disk still names a block, and every block it named has
\* its bit clear.
C37_TruncateZeroes ==
    (mode = "fs" /\ fsys.alive) =>
        \A i \in Inums :
            fsys.din[i].ftype = "Free" =>
                /\ fsys.mem[i].copy.addrs = ZeroAddrs
                /\ (RefsOf(fsys, i) \ {0}) \cap fsys.bits = {}
                /\ fsys.din[i].addrs = ZeroAddrs

\* C38: inode_alloc gives the lowest Free inode the requested type with
\* nlink 0, size 0 and all addresses 0 on the disk, whatever the inode held
\* when it was freed, and hands out a handle for it; when no inode is Free
\* the caller gets None and the shell goes on.
C38_InodeAllocZeroes ==
    (mode = "fs" /\ fsys.alive) =>
        /\ FirstFree(fsys) # 0 =>
              /\ \A i \in Inums : i < FirstFree(fsys) => fsys.din[i].ftype # "Free"
              /\ InodeAlloc(fsys, "File").mem[FirstFree(fsys)].refs > 0
              /\ InodeAlloc(fsys, "File").din[FirstFree(fsys)] =
                    [ftype |-> "File", nlink |-> 0, size |-> 0, addrs |-> ZeroAddrs]
        /\ FirstFree(fsys) = 0 =>
              After(CreateNew(LoadCopy(fsys, ROOTINO), ROOTINO, NameX, "File", FALSE)).alive

\* what rinode must leave alone: the bitmap, the inodes on the disk, the
\* cached copy of inode i and the blocks
Untouched(f, g, i) ==
    /\ g.bits = f.bits
    /\ g.din = f.din
    /\ CopyOf(g, i) = CopyOf(f, i)
    /\ g.blk = f.blk

\* C39: rinode of any offset and length, holes inside the size included,
\* changes neither the bitmap nor the inode on the disk nor the cached copy
\* nor any block, returns min(n, size - off) bytes, and 0 bytes when off is
\* beyond the size.
C39_ReadNoSideEffect ==
    (mode = "rw" /\ fsys.alive) =>
        \A off \in 0 .. (MAXFILE * BSIZE) : \A n \in 0 .. MaxN :
            /\ Rinode(fsys, fsys.ino, off, n).ok
            /\ Untouched(fsys, Rinode(fsys, fsys.ino, off, n).f, fsys.ino)
            /\ Len(Rinode(fsys, fsys.ino, off, n).out) =
                  (IF off > CopyOf(fsys, fsys.ino).size THEN 0
                   ELSE IF off + n > CopyOf(fsys, fsys.ino).size
                   THEN CopyOf(fsys, fsys.ino).size - off ELSE n)

\* C40: whatever the interleaving of the threads, the blocks handed out by
\* block_alloc and not freed since are all different and have their bits
\* set, and the inodes handed out by inode_alloc are all different and not
\* Free; a thread tests and changes a block only while it alone holds the
\* guard of that block.
C40_NoCollision ==
    (mode = "alloc" /\ fsys.alive) =>
        /\ \A t, u \in AllocThreads :
              /\ NoRepeat(fsys.got[t]) /\ NoRepeat(fsys.igot[t])
              /\ t # u =>
                    /\ Range(fsys.got[t]) \cap Range(fsys.got[u]) = {}
                    /\ Range(fsys.igot[t]) \cap Range(fsys.igot[u]) = {}
                    /\ ~(fsys.pc[t] = "bits" /\ fsys.pc[u] = "bits")
                    /\ ~(fsys.pc[t] = "inode" /\ fsys.pc[u] = "inode")
        /\ \A t \in AllocThreads :
              /\ Range(fsys.got[t]) \subseteq fsys.bits
              /\ \A i \in Range(fsys.igot[t]) : fsys.ftype[i] # "Free"
              /\ fsys.pc[t] = "bits" => fsys.guard["bitmap"] = t /\ fsys.buf[t] = fsys.bits
              /\ fsys.pc[t] = "inode" =>
                    fsys.guard["inode"] = t /\ fsys.seen[t] = fsys.ftype[fsys.at[t]]

\* one thread has used up its calls and holds a block and an inode, the other
\* holds an inode and is inside block_alloc with the guard of the bitmap block
C40_Witness ==
    /\ mode = "alloc" /\ fsys.alive
    /\ \E t, u \in AllocThreads :
          /\ t # u
          /\ fsys.got[t] # <<>> /\ fsys.igot[u] # <<>> /\ fsys.igot[t] # <<>>
          /\ fsys.pc[u] = "bits" /\ fsys.calls[t] = MaxAllocs

====
